---- MODULE Spec2Model ----
(***************************************************************************)
(* Open-mic tracker: the scraper / matcher core and the record store.      *)
(*                                                                         *)
(* A text is a string; Chars gives its characters, so that lower(),        *)
(* strip(), split() and slicing are computed on them, not assumed.         *)
(* Python's None (and a missing dict key read with .get) is the value None.*)
(***************************************************************************)
EXTENDS Integers, Sequences, FiniteSets, TLC

VARIABLES
    open_mics,      \* the open_mics table: a sequence of rows, id = position
    session,        \* st.session_state of the Settings page: the scrape result and its comparison
    outcome,        \* ghost: the matcher's verdict on each fresh record of the last comparison
    added_from,     \* ghost: the fresh list whose new subset Add All inserted last
    scrape_log,     \* the scrape_log table: a sequence of rows
    run,            \* how the last run of a button handler of the Settings page ended
    extractor,      \* the scrape_* function being run, "none" outside a call
    pc,             \* where the call stands
    site,           \* what the target site answers to this call
    errors,         \* the local list "errors"
    mics,           \* the local list "mics" ("all_mics" in comedy_listings.py)
    locals,         \* the other locals: loop positions, events, seen_event_ids, raised exception
    requests,       \* ghost: the HTTP GETs issued by the call
    hit,            \* ghost: the kinds of failure the call ran into
    result,         \* what the caller gets: the returned dict, or the exception that escaped
    time_strs,      \* the raw times under conversion: each its source and its characters
    clocks,         \* ghost: what each raw time means, as minutes since midnight
    military_times, \* the start_time made of each raw time
    display_times,  \* the 12-hour display_time made of each start_time
    reconverted,    \* the start_time made of each display_time
    tpc,            \* how far the conversions have gone
    my_sets,        \* the my_sets table: a sequence of rows, id = position
    mic_plans,      \* the mic_plans table: a set of rows, one per (open_mic_id, plan_date)
    lines,          \* _parse_page: the local list "lines"
    line_no,        \* _parse_page: how many turns "for line in lines" has made
    current_mic,    \* _parse_page: the local "current_mic"
    page_mics,      \* _parse_page: the local list "mics"
    returned,       \* _parse_page: the returned list, NotParsed before the return
    calendar,       \* the sessions of the Weekly Calendar page: where each one's run stands
    last_plan_call, \* ghost: the last of set_mic_plan and remove_mic_plan called for each mic
    going_added     \* ghost: how often a Going handler has called add_set for each mic

matchVars == <<open_mics, session, outcome, added_from, scrape_log, run>>

scrapeVars == <<extractor, pc, site, errors, mics, locals, requests, hit, result>>

timeVars == <<time_strs, clocks, military_times, display_times, reconverted, tpc>>

storeVars == <<my_sets, mic_plans>>

parseVars == <<lines, line_no, current_mic, page_mics, returned>>

planVars == <<calendar, last_plan_call, going_added>>

vars == <<open_mics, session, outcome, added_from, scrape_log, run,
          extractor, pc, site, errors, mics, locals, requests, hit, result,
          time_strs, clocks, military_times, display_times, reconverted, tpc,
          my_sets, mic_plans,
          lines, line_no, current_mic, page_mics, returned,
          calendar, last_plan_call, going_added>>

\* ------------------------------------------------------------------ text

None == "<None>"

\* The characters of every text of the model.
Chars ==
       "" :> <<>>
    @@ "The" :> <<"T", "h", "e">>
    @@ "The Green Room" :> <<"T", "h", "e", " ", "G", "r", "e", "e", "n", " ", "R", "o", "o", "m">>
    @@ "Green Room Comedy" :> <<"G", "r", "e", "e", "n", " ", "R", "o", "o", "m", " ", "C", "o", "m", "e", "d", "y">>
    @@ "Open Mic" :> <<"O", "p", "e", "n", " ", "M", "i", "c">>
    @@ "The Golden Pen" :> <<"T", "h", "e", " ", "G", "o", "l", "d", "e", "n", " ", "P", "e", "n">>
    @@ "Golden Pen Open Mic" :> <<"G", "o", "l", "d", "e", "n", " ", "P", "e", "n", " ", "O", "p", "e", "n", " ", "M", "i", "c">>
    @@ "Golden Hour" :> <<"G", "o", "l", "d", "e", "n", " ", "H", "o", "u", "r">>
    @@ "487 Atlantic Ave" :> <<"4", "8", "7", " ", "A", "t", "l", "a", "n", "t", "i", "c", " ", "A", "v", "e">>
    @@ "487 ATLANTIC Avenue" :> <<"4", "8", "7", " ", "A", "T", "L", "A", "N", "T", "I", "C", " ", "A", "v", "e", "n", "u", "e">>
    @@ "12 Main St" :> <<"1", "2", " ", "M", "a", "i", "n", " ", "S", "t">>
    @@ "Monday" :> <<"M", "o", "n", "d", "a", "y">>
    @@ "Tuesday" :> <<"T", "u", "e", "s", "d", "a", "y">>
    @@ "the" :> <<"t", "h", "e">>
    @@ "a" :> <<"a">>
    @@ "an" :> <<"a", "n">>
    @@ "of" :> <<"o", "f">>
    @@ "at" :> <<"a", "t">>
    @@ "in" :> <<"i", "n">>
    @@ "open" :> <<"o", "p", "e", "n">>
    @@ "mic" :> <<"m", "i", "c">>
    @@ "Brooklyn, NY" :> <<"B", "r", "o", "o", "k", "l", "y", "n", ",", " ", "N", "Y">>
    @@ "Albany, NY" :> <<"A", "l", "b", "a", "n", "y", ",", " ", "N", "Y">>
    @@ "new york" :> <<"n", "e", "w", " ", "y", "o", "r", "k">>
    @@ "brooklyn" :> <<"b", "r", "o", "o", "k", "l", "y", "n">>
    @@ "bronx" :> <<"b", "r", "o", "n", "x">>
    @@ "queens" :> <<"q", "u", "e", "e", "n", "s">>
    @@ "staten island" :> <<"s", "t", "a", "t", "e", "n", " ", "i", "s", "l", "a", "n", "d">>
    @@ "long island city" :> <<"l", "o", "n", "g", " ", "i", "s", "l", "a", "n", "d", " ", "c", "i", "t", "y">>
    @@ "astoria" :> <<"a", "s", "t", "o", "r", "i", "a">>
    @@ "flushing" :> <<"f", "l", "u", "s", "h", "i", "n", "g">>
    @@ "jamaica" :> <<"j", "a", "m", "a", "i", "c", "a">>
    @@ "open mic" :> <<"o", "p", "e", "n", " ", "m", "i", "c">>
    @@ "pen mic" :> <<"p", "e", "n", " ", "m", "i", "c">>
    @@ "mecca mic" :> <<"m", "e", "c", "c", "a", " ", "m", "i", "c">>
    @@ "new sh" :> <<"n", "e", "w", " ", "s", "h">>
    @@ "no name" :> <<"n", "o", " ", "n", "a", "m", "e">>
    @@ "ethically ambiguous" :> <<"e", "t", "h", "i", "c", "a", "l", "l", "y", " ", "a", "m", "b", "i", "g", "u", "o", "u", "s">>
    @@ "trauma dump" :> <<"t", "r", "a", "u", "m", "a", " ", "d", "u", "m", "p">>
    @@ "late night open" :> <<"l", "a", "t", "e", " ", "n", "i", "g", "h", "t", " ", "o", "p", "e", "n">>
    @@ "marathon" :> <<"m", "a", "r", "a", "t", "h", "o", "n">>
    @@ "The Golden Pen Open Mic" :> <<"T", "h", "e", " ", "G", "o", "l", "d", "e", "n", " ", "P", "e", "n", " ", "O", "p", "e", "n", " ", "M", "i", "c">>
    @@ "Headliner Showcase" :> <<"H", "e", "a", "d", "l", "i", "n", "e", "r", " ", "S", "h", "o", "w", "c", "a", "s", "e">>
    @@ "Late Night Open Mic" :> <<"L", "a", "t", "e", " ", "N", "i", "g", "h", "t", " ", "O", "p", "e", "n", " ", "M", "i", "c">>
    @@ "Mecca Mic" :> <<"M", "e", "c", "c", "a", " ", "M", "i", "c">>
    @@ "Tuesday Mic" :> <<"T", "u", "e", "s", "d", "a", "y", " ", "M", "i", "c">>
    @@ "TUESDAY" :> <<"T", "U", "E", "S", "D", "A", "Y">>
    @@ "tuesday" :> <<"t", "u", "e", "s", "d", "a", "y">>
    @@ "monday" :> <<"m", "o", "n", "d", "a", "y">>
    @@ "funday" :> <<"f", "u", "n", "d", "a", "y">>
    @@ " Open Mic" :> <<" ", "O", "p", "e", "n", " ", "M", "i", "c">>
    @@ "The Green Room Open Mic" :> <<"T", "h", "e", " ", "G", "r", "e", "e", "n", " ", "R", "o", "o", "m", " ", "O", "p", "e", "n", " ", "M", "i", "c">>
    @@ "Tues" :> <<"T", "u", "e", "s">>
    @@ "The Green Room " :> <<"T", "h", "e", " ", "G", "r", "e", "e", "n", " ", "R", "o", "o", "m", " ">>
    @@ "wednesday" :> <<"w", "e", "d", "n", "e", "s", "d", "a", "y">>
    @@ "thursday" :> <<"t", "h", "u", "r", "s", "d", "a", "y">>
    @@ "friday" :> <<"f", "r", "i", "d", "a", "y">>
    @@ "saturday" :> <<"s", "a", "t", "u", "r", "d", "a", "y">>
    @@ "sunday" :> <<"s", "u", "n", "d", "a", "y">>
    @@ "Wednesday" :> <<"W", "e", "d", "n", "e", "s", "d", "a", "y">>
    @@ "Thursday" :> <<"T", "h", "u", "r", "s", "d", "a", "y">>
    @@ "Friday" :> <<"F", "r", "i", "d", "a", "y">>
    @@ "Saturday" :> <<"S", "a", "t", "u", "r", "d", "a", "y">>
    @@ "Sunday" :> <<"S", "u", "n", "d", "a", "y">>
    @@ "487 Atlantic Ave, Brooklyn, NY" :> <<"4", "8", "7", " ", "A", "t", "l", "a", "n", "t", "i", "c", " ", "A", "v", "e", ",", " ", "B", "r", "o", "o", "k", "l", "y", "n", ",", " ", "N", "Y">>
    @@ "<b>The Green Room</b>" :> <<"<", "b", ">", "T", "h", "e", " ", "G", "r", "e", "e", "n", " ", "R", "o", "o", "m", "<", "/", "b", ">">>
    @@ "7:00pm" :> <<"7", ":", "0", "0", "p", "m">>
    @@ "$5" :> <<"$", "5">>
    @@ "19:00" :> <<"1", "9", ":", "0", "0">>
    @@ "7:00  PM" :> <<"7", ":", "0", "0", " ", " ", "P", "M">>
    @@ "7:00 PM" :> <<"7", ":", "0", "0", " ", "P", "M">>
    @@ "<b>Test Venue</b>" :> <<"<", "b", ">", "T", "e", "s", "t", " ", "V", "e", "n", "u", "e", "<", "/", "b", ">">>
    @@ "Free" :> <<"F", "r", "e", "e">>
    @@ "Monday<br>Open Mic<br>The Golden Pen<br>12 Main St<br>Albany, NY<br>7:00pm" :> <<"M", "o", "n", "d", "a", "y", "<", "b", "r", ">", "O", "p", "e", "n", " ", "M", "i", "c", "<", "b", "r", ">", "T", "h", "e", " ", "G", "o", "l", "d", "e", "n", " ", "P", "e", "n", "<", "b", "r", ">", "1", "2", " ", "M", "a", "i", "n", " ", "S", "t", "<", "b", "r", ">", "A", "l", "b", "a", "n", "y", ",", " ", "N", "Y", "<", "b", "r", ">", "7", ":", "0", "0", "p", "m">>
    @@ "Monday<br>Test Mic<br>\n<b>Test Venue</b><br>12 Main St<br>New York, NY<br>7:00 PM<br> Free" :> <<"M", "o", "n", "d", "a", "y", "<", "b", "r", ">", "T", "e", "s", "t", " ", "M", "i", "c", "<", "b", "r", ">", "\n", "<", "b", ">", "T", "e", "s", "t", " ", "V", "e", "n", "u", "e", "<", "/", "b", ">", "<", "b", "r", ">", "1", "2", " ", "M", "a", "i", "n", " ", "S", "t", "<", "b", "r", ">", "N", "e", "w", " ", "Y", "o", "r", "k", ",", " ", "N", "Y", "<", "b", "r", ">", "7", ":", "0", "0", " ", "P", "M", "<", "b", "r", ">", " ", "F", "r", "e", "e">>
    @@ "New York, NY" :> <<"N", "e", "w", " ", "Y", "o", "r", "k", ",", " ", "N", "Y">>
    @@ "TBD" :> <<"T", "B", "D">>
    @@ "Test Mic" :> <<"T", "e", "s", "t", " ", "M", "i", "c">>
    @@ "Test Venue" :> <<"T", "e", "s", "t", " ", "V", "e", "n", "u", "e">>
    @@ "Test Venue Open Mic" :> <<"T", "e", "s", "t", " ", "V", "e", "n", "u", "e", " ", "O", "p", "e", "n", " ", "M", "i", "c">>
    @@ "Tues<br>Open Mic<br>The Golden Pen<br>12 Main St<br>Brooklyn, NY<br>7:00pm" :> <<"T", "u", "e", "s", "<", "b", "r", ">", "O", "p", "e", "n", " ", "M", "i", "c", "<", "b", "r", ">", "T", "h", "e", " ", "G", "o", "l", "d", "e", "n", " ", "P", "e", "n", "<", "b", "r", ">", "1", "2", " ", "M", "a", "i", "n", " ", "S", "t", "<", "b", "r", ">", "B", "r", "o", "o", "k", "l", "y", "n", ",", " ", "N", "Y", "<", "b", "r", ">", "7", ":", "0", "0", "p", "m">>
    @@ "Tuesday<br><br><b>The Green Room</b><br>487 Atlantic Ave<br>Brooklyn, NY<br>7:00pm" :> <<"T", "u", "e", "s", "d", "a", "y", "<", "b", "r", ">", "<", "b", "r", ">", "<", "b", ">", "T", "h", "e", " ", "G", "r", "e", "e", "n", " ", "R", "o", "o", "m", "<", "/", "b", ">", "<", "b", "r", ">", "4", "8", "7", " ", "A", "t", "l", "a", "n", "t", "i", "c", " ", "A", "v", "e", "<", "b", "r", ">", "B", "r", "o", "o", "k", "l", "y", "n", ",", " ", "N", "Y", "<", "b", "r", ">", "7", ":", "0", "0", "p", "m">>
    @@ "Tuesday<br>Open Mic" :> <<"T", "u", "e", "s", "d", "a", "y", "<", "b", "r", ">", "O", "p", "e", "n", " ", "M", "i", "c">>
    @@ "Tuesday<br>Open Mic<br>The Golden Pen<br>12 Main St<br>Brooklyn, NY<br>" :> <<"T", "u", "e", "s", "d", "a", "y", "<", "b", "r", ">", "O", "p", "e", "n", " ", "M", "i", "c", "<", "b", "r", ">", "T", "h", "e", " ", "G", "o", "l", "d", "e", "n", " ", "P", "e", "n", "<", "b", "r", ">", "1", "2", " ", "M", "a", "i", "n", " ", "S", "t", "<", "b", "r", ">", "B", "r", "o", "o", "k", "l", "y", "n", ",", " ", "N", "Y", "<", "b", "r", ">">>
    @@ "Wednesday<br>Open Mic<br>The Golden Pen<br>12 Main St<br>Brooklyn, NY<br>tbd<br>$5" :> <<"W", "e", "d", "n", "e", "s", "d", "a", "y", "<", "b", "r", ">", "O", "p", "e", "n", " ", "M", "i", "c", "<", "b", "r", ">", "T", "h", "e", " ", "G", "o", "l", "d", "e", "n", " ", "P", "e", "n", "<", "b", "r", ">", "1", "2", " ", "M", "a", "i", "n", " ", "S", "t", "<", "b", "r", ">", "B", "r", "o", "o", "k", "l", "y", "n", ",", " ", "N", "Y", "<", "b", "r", ">", "t", "b", "d", "<", "b", "r", ">", "$", "5">>
    @@ "tbd" :> <<"t", "b", "d">>
    @@ "19:00:00" :> <<"1", "9", ":", "0", "0", ":", "0", "0">>
    @@ "21:30:00" :> <<"2", "1", ":", "3", "0", ":", "0", "0">>
    @@ "17:00:00" :> <<"1", "7", ":", "0", "0", ":", "0", "0">>
    @@ "09:30:00" :> <<"0", "9", ":", "3", "0", ":", "0", "0">>
    @@ "20:00:00" :> <<"2", "0", ":", "0", "0", ":", "0", "0">>
    @@ "21:30" :> <<"2", "1", ":", "3", "0">>
    @@ "17:00" :> <<"1", "7", ":", "0", "0">>
    @@ "09:30" :> <<"0", "9", ":", "3", "0">>
    @@ "20:00" :> <<"2", "0", ":", "0", "0">>
    @@ "18:00" :> <<"1", "8", ":", "0", "0">>
    @@ "9:30 PM" :> <<"9", ":", "3", "0", " ", "P", "M">>
    @@ "5:00 PM" :> <<"5", ":", "0", "0", " ", "P", "M">>
    @@ "9:30 AM" :> <<"9", ":", "3", "0", " ", "A", "M">>
    @@ "8:00 PM" :> <<"8", ":", "0", "0", " ", "P", "M">>
    @@ "6:00 PM" :> <<"6", ":", "0", "0", " ", "P", "M">>
    @@ "Late Mic" :> <<"L", "a", "t", "e", " ", "M", "i", "c">>
    @@ "Early Mic" :> <<"E", "a", "r", "l", "y", " ", "M", "i", "c">>
    @@ "$10.00" :> <<"$", "1", "0", ".", "0", "0">>
    @@ "1 drink min" :> <<"1", " ", "d", "r", "i", "n", "k", " ", "m", "i", "n">>
    @@ "Varies" :> <<"V", "a", "r", "i", "e", "s">>
    @@ "10.00" :> <<"1", "0", ".", "0", "0">>
    @@ "0" :> <<"0">>
    @@ "0.00" :> <<"0", ".", "0", "0">>
    @@ "<b>The Green Room</b> Open Mic" :> <<"<", "b", ">", "T", "h", "e", " ", "G", "r", "e", "e", "n", " ", "R", "o", "o", "m", "<", "/", "b", ">", " ", "O", "p", "e", "n", " ", "M", "i", "c">>
    @@ "<b>Test Venue</b> Open Mic" :> <<"<", "b", ">", "T", "e", "s", "t", " ", "V", "e", "n", "u", "e", "<", "/", "b", ">", " ", "O", "p", "e", "n", " ", "M", "i", "c">>
    @@ "7:30PM" :> <<"7", ":", "3", "0", "P", "M">>
    @@ "9pm - Late Mic" :> <<"9", "p", "m", " ", "-", " ", "L", "a", "t", "e", " ", "M", "i", "c">>
    @@ "Free, 487 Atlantic Ave" :> <<"F", "r", "e", "e", ",", " ", "4", "8", "7", " ", "A", "t", "l", "a", "n", "t", "i", "c", " ", "A", "v", "e">>
    @@ "$5, bucket list" :> <<"$", "5", ",", " ", "b", "u", "c", "k", "e", "t", " ", "l", "i", "s", "t">>
    @@ "Sign up online" :> <<"S", "i", "g", "n", " ", "u", "p", " ", "o", "n", "l", "i", "n", "e">>
    @@ "Email list" :> <<"E", "m", "a", "i", "l", " ", "l", "i", "s", "t">>
    @@ " Open Mic " :> <<" ", "O", "p", "e", "n", " ", "M", "i", "c", " ">>
    @@ "9PM" :> <<"9", "P", "M">>
    @@ "19:30" :> <<"1", "9", ":", "3", "0">>
    @@ "21:00" :> <<"2", "1", ":", "0", "0">>
    @@ "w" :> <<"w">>
    @@ "e" :> <<"e">>
    @@ "n" :> <<"n">>
    @@ "s" :> <<"s">>
    @@ "west" :> <<"w", "e", "s", "t">>
    @@ "east" :> <<"e", "a", "s", "t">>
    @@ "north" :> <<"n", "o", "r", "t", "h">>
    @@ "south" :> <<"s", "o", "u", "t", "h">>
    @@ "st" :> <<"s", "t">>
    @@ "ave" :> <<"a", "v", "e">>
    @@ "blvd" :> <<"b", "l", "v", "d">>
    @@ "rd" :> <<"r", "d">>
    @@ "way" :> <<"w", "a", "y">>
    @@ "pl" :> <<"p", "l">>
    @@ "dr" :> <<"d", "r">>
    @@ "ln" :> <<"l", "n">>
    @@ "ct" :> <<"c", "t">>
    @@ "broadway" :> <<"b", "r", "o", "a", "d", "w", "a", "y">>
    @@ "street" :> <<"s", "t", "r", "e", "e", "t">>
    @@ "avenue" :> <<"a", "v", "e", "n", "u", "e">>
    @@ "place" :> <<"p", "l", "a", "c", "e">>
    @@ "$" :> <<"$">>
    @@ "free" :> <<"f", "r", "e", "e">>
    @@ "drink min" :> <<"d", "r", "i", "n", "k", " ", "m", "i", "n">>
    @@ "item min" :> <<"i", "t", "e", "m", " ", "m", "i", "n">>
    @@ "no cover" :> <<"n", "o", " ", "c", "o", "v", "e", "r">>
    @@ "sign up" :> <<"s", "i", "g", "n", " ", "u", "p">>
    @@ "signup" :> <<"s", "i", "g", "n", "u", "p">>
    @@ "first come" :> <<"f", "i", "r", "s", "t", " ", "c", "o", "m", "e">>
    @@ "bucket" :> <<"b", "u", "c", "k", "e", "t">>
    @@ "list" :> <<"l", "i", "s", "t">>
    @@ "online" :> <<"o", "n", "l", "i", "n", "e">>
    @@ "website" :> <<"w", "e", "b", "s", "i", "t", "e">>
    @@ "link" :> <<"l", "i", "n", "k">>
    @@ "book" :> <<"b", "o", "o", "k">>
    @@ "email" :> <<"e", "m", "a", "i", "l">>
    @@ "e-mail" :> <<"e", "-", "m", "a", "i", "l">>
    @@ "dm" :> <<"d", "m">>
    @@ "instagram" :> <<"i", "n", "s", "t", "a", "g", "r", "a", "m">>
    @@ "ig" :> <<"i", "g">>
    @@ "gowanus" :> <<"g", "o", "w", "a", "n", "u", "s">>
    @@ "williamsburg" :> <<"w", "i", "l", "l", "i", "a", "m", "s", "b", "u", "r", "g">>
    @@ "bushwick" :> <<"b", "u", "s", "h", "w", "i", "c", "k">>
    @@ "south slope" :> <<"s", "o", "u", "t", "h", " ", "s", "l", "o", "p", "e">>
    @@ "park slope" :> <<"p", "a", "r", "k", " ", "s", "l", "o", "p", "e">>
    @@ "atlantic ave" :> <<"a", "t", "l", "a", "n", "t", "i", "c", " ", "a", "v", "e">>
    @@ "harlem" :> <<"h", "a", "r", "l", "e", "m">>
    @@ "les" :> <<"l", "e", "s">>
    @@ "rivington" :> <<"r", "i", "v", "i", "n", "g", "t", "o", "n">>
    @@ "east village" :> <<"e", "a", "s", "t", " ", "v", "i", "l", "l", "a", "g", "e">>
    @@ "st marks" :> <<"s", "t", " ", "m", "a", "r", "k", "s">>
    @@ "west village" :> <<"w", "e", "s", "t", " ", "v", "i", "l", "l", "a", "g", "e">>
    @@ "soho" :> <<"s", "o", "h", "o">>
    @@ "vandam" :> <<"v", "a", "n", "d", "a", "m">>
    @@ "uws" :> <<"u", "w", "s">>
    @@ "upper west" :> <<"u", "p", "p", "e", "r", " ", "w", "e", "s", "t">>
    @@ "ues" :> <<"u", "e", "s">>
    @@ "upper east" :> <<"u", "p", "p", "e", "r", " ", "e", "a", "s", "t">>
    @@ "gramercy" :> <<"g", "r", "a", "m", "e", "r", "c", "y">>
    @@ "midtown" :> <<"m", "i", "d", "t", "o", "w", "n">>
    @@ "chelsea" :> <<"c", "h", "e", "l", "s", "e", "a">>
    @@ "hells kitchen" :> <<"h", "e", "l", "l", "s", " ", "k", "i", "t", "c", "h", "e", "n">>
    @@ "hell's kitchen" :> <<"h", "e", "l", "l", "'", "s", " ", "k", "i", "t", "c", "h", "e", "n">>
    @@ "bruckner" :> <<"b", "r", "u", "c", "k", "n", "e", "r">>

Texts == DOMAIN Chars

UpperLetters == <<"A", "B", "C", "D", "E", "F", "G", "H", "I", "J", "K", "L", "M", "N", "O", "P", "Q", "R", "S", "T", "U", "V", "W", "X", "Y", "Z">>
LowerLetters == <<"a", "b", "c", "d", "e", "f", "g", "h", "i", "j", "k", "l", "m", "n", "o", "p", "q", "r", "s", "t", "u", "v", "w", "x", "y", "z">>

Whitespace == {" ", "\t", "\n", "\r"}

\* str.lower() on one character
LowerChar(c) ==
    IF \E i \in DOMAIN UpperLetters : UpperLetters[i] = c
    THEN LowerLetters[CHOOSE i \in DOMAIN UpperLetters : UpperLetters[i] = c]
    ELSE c

\* str.upper() on one character
UpperChar(c) ==
    IF \E k \in DOMAIN LowerLetters : LowerLetters[k] = c
    THEN UpperLetters[CHOOSE k \in DOMAIN LowerLetters : LowerLetters[k] = c]
    ELSE c

\* str.upper()
Upper(s) == [i \in DOMAIN s |-> UpperChar(s[i])]

\* str.lower()
Lower(s) == [i \in DOMAIN s |-> LowerChar(s[i])]

\* str.strip(): drop leading and trailing whitespace
Strip(s) ==
    LET keep == {i \in DOMAIN s : s[i] \notin Whitespace}
    IN  IF keep = {} THEN <<>>
        ELSE LET lo == CHOOSE i \in keep : \A j \in keep : i <= j
                 hi == CHOOSE i \in keep : \A j \in keep : i >= j
             IN  SubSeq(s, lo, hi)

\* set(str.split()): the maximal runs of non-whitespace characters
SplitSet(s) ==
    {SubSeq(s, i, j) : <<i, j>> \in
        {p \in (DOMAIN s) \X (DOMAIN s) :
            /\ p[1] <= p[2]
            /\ \A k \in p[1]..p[2] : s[k] \notin Whitespace
            /\ (p[1] = 1 \/ s[p[1] - 1] \in Whitespace)
            /\ (p[2] = Len(s) \/ s[p[2] + 1] \in Whitespace)}}

\* s[:n]
Slice(s, n) == SubSeq(s, 1, IF Len(s) < n THEN Len(s) ELSE n)

\* Python truthiness of a str-or-None value
Truthy(x) == x # None /\ x # ""

\* (x or "")
OrEmpty(x) == IF Truthy(x) THEN x ELSE ""

\* --------------------------------------------------------------- records

\* A scraped mic dict, restricted to the keys the matcher and the insert read.
Mic(venue, name, address, day, source) ==
    [venue |-> venue, name |-> name, address |-> address, day_of_week |-> day, source |-> source]

\* A mic dict as an extractor builds it: the keys above and its schedule and cost.
Scraped(mic, start_time, display_time, cost) ==
    [venue |-> mic.venue, name |-> mic.name, address |-> mic.address,
     day_of_week |-> mic.day_of_week, source |-> mic.source,
     start_time |-> start_time, display_time |-> display_time, cost |-> cost]

\* dict.get(key) / dict.get(key, default)
Get(d, k, default) == IF k \in DOMAIN d THEN d[k] ELSE default

\* ---------------------------------------------------------------- inputs

\* The records a scrape may return.  Every case of the matcher has a record:
\* a venue with significant words, a venue of stopwords only, an empty venue,
\* names sharing two, one or no significant word, addresses agreeing or not on
\* their first ten characters, and records without a weekday.
FreshPool(source) ==
    << Mic("The Green Room", "Open Mic",      "487 Atlantic Ave", "Tuesday", source),
      Mic("The",          "Open Mic",      "487 Atlantic Ave", "Tuesday", source),
      Mic("The",          "Open Mic",      "",   "Tuesday", source),
      Mic("",        "The Golden Pen", "",   "Tuesday", source),
      Mic("",        "Golden Hour",   "12 Main St",  "Tuesday", source),
      Mic("The Green Room", "Open Mic",      "487 Atlantic Ave", None,      source),
      Mic("The Green Room", "Open Mic",      "487 Atlantic Ave", "",   source) >>

\* An open_mics row.  name, venue and day_of_week are NOT NULL; address may be NULL.
Row(id, venue, name, address, day, active) ==
    [id |-> id, venue |-> venue, name |-> name, address |-> address,
     day_of_week |-> day, is_active |-> active]

\* The rows the table may hold at the start (ids are assigned by position).
StorePool ==
    << Row(0, "Green Room Comedy", "Open Mic",          None,           "Tuesday", TRUE),
      Row(0, "The Green Room",    "Open Mic",          "487 Atlantic Ave",      "Monday",  TRUE),
      Row(0, "The",             "Open Mic",          "487 ATLANTIC Avenue", "Tuesday", TRUE),
      Row(0, "The",             "Open Mic",          "12 Main St",       "Tuesday", TRUE),
      Row(0, "",           "Golden Pen Open Mic", "",        "Tuesday", TRUE),
      Row(0, "The Green Room",    "Open Mic",          "487 Atlantic Ave",      "Tuesday", FALSE) >>

\* --------------------------------------------------------------- matcher

\* {"the", "a", "an", "of", "at", "in"}
VenueStopwords == {Chars[w] : w \in {"the", "a", "an", "of", "at", "in"}}

\* {"the", "a", "an", "of", "at", "in", "open", "mic"}
NameStopwords == {Chars[w] : w \in {"the", "a", "an", "of", "at", "in", "open", "mic"}}

\* set((x or "").lower().strip().split()), evaluated once per text
LowerWordsOf == [t \in Texts |-> SplitSet(Strip(Lower(Chars[t])))]

LowerWords(x) == LowerWordsOf[OrEmpty(x)]

\* x[:10].lower(), evaluated once per text
AddressPrefixLen == 10

LowerPrefixOf == [t \in Texts |-> Lower(Slice(Chars[t], AddressPrefixLen))]

LowerPrefix(x) == LowerPrefixOf[x]

\* (x or "").lower().strip() is the empty string
BlankText(x) == LowerWords(x) = {}

\* badslava.py: "if s_words & e_words and s_day == e_day"
BsVenueMatch(scraped, existing) ==
    LET s_words == LowerWords(Get(scraped, "venue", None)) \ VenueStopwords
        e_words == LowerWords(Get(existing, "venue", None)) \ VenueStopwords
    IN  /\ s_words \cap e_words # {}
        /\ Get(scraped, "day_of_week", "") = Get(existing, "day_of_week", "")

\* badslava.py: the address + day test
BsAddressMatch(scraped, existing) ==
    /\ Truthy(Get(existing, "address", None))
    /\ Truthy(Get(scraped, "address", None))
    /\ LowerPrefix(existing["address"]) = LowerPrefix(scraped["address"])
    /\ Get(scraped, "day_of_week", "") = Get(existing, "day_of_week", "")

\* badslava.py: the inner loop over existing_mics_df.iterrows(), from row j on
RECURSIVE BsScan(_, _, _)
BsScan(scraped, existing_mics_df, j) ==
    IF j > Len(existing_mics_df) THEN FALSE
    ELSE IF BsVenueMatch(scraped, existing_mics_df[j]) THEN TRUE
    ELSE IF BsAddressMatch(scraped, existing_mics_df[j]) THEN TRUE
    ELSE BsScan(scraped, existing_mics_df, j + 1)

\* badslava.py: "if not s_venue or not s_day: continue"
BsSkips(scraped) ==
    \/ BlankText(Get(scraped, "venue", None))
    \/ ~Truthy(Get(scraped, "day_of_week", ""))

\* Mutant of Handle: a matched record is listed with the new ones.
HandleListsMatched(acc, scraped, skips, found) ==
    IF skips THEN [acc EXCEPT !.verdicts = Append(@, "skipped")]
    ELSE IF found
         THEN [acc EXCEPT !.new_mics = Append(@, scraped), !.matched_mics = @ + 1,
                          !.verdicts = Append(@, "matched")]
         ELSE [acc EXCEPT !.new_mics = Append(@, scraped), !.verdicts = Append(@, "new")]

\* One pass of the outer loop: the accumulators after the record is handled.
\* verdicts is a ghost of the loop: what happened to each record, in order.
Handle(acc, scraped, skips, found) ==
    IF skips THEN [acc EXCEPT !.verdicts = Append(@, "skipped")]
    ELSE IF found
         THEN [acc EXCEPT !.matched_mics = @ + 1, !.verdicts = Append(@, "matched")]
         ELSE [acc EXCEPT !.new_mics = Append(@, scraped), !.verdicts = Append(@, "new")]

EmptyComparison == [new_mics |-> <<>>, matched_mics |-> 0, verdicts |-> <<>>]

\* Mutant of BsLoop: a record is also matched against the records found new
\* before it in the batch.
RECURSIVE BsLoopSeesBatch(_, _, _, _)
BsLoopSeesBatch(scraped_mics, existing_mics_df, i, acc) ==
    IF i > Len(scraped_mics) THEN acc
    ELSE BsLoopSeesBatch(scraped_mics, existing_mics_df, i + 1,
                Handle(acc, scraped_mics[i], BsSkips(scraped_mics[i]),
                       BsScan(scraped_mics[i], existing_mics_df \o acc.new_mics, 1)))

\* badslava.py: the outer loop over scraped_mics, from record i on
RECURSIVE BsLoop(_, _, _, _)
BsLoop(scraped_mics, existing_mics_df, i, acc) ==
    IF i > Len(scraped_mics) THEN acc
    ELSE BsLoop(scraped_mics, existing_mics_df, i + 1,
                Handle(acc, scraped_mics[i], BsSkips(scraped_mics[i]),
                       BsScan(scraped_mics[i], existing_mics_df, 1)))

compare_badslava_with_database(scraped_mics, existing_mics_df) ==
    BsLoop(scraped_mics, existing_mics_df, 1, EmptyComparison)

\* firemics.py: "if s_words & e_words"
FmVenueMatch(scraped, existing) ==
    LET s_words == LowerWords(Get(scraped, "venue", None)) \ VenueStopwords
        e_words == LowerWords(Get(existing, "venue", None)) \ VenueStopwords
    IN  s_words \cap e_words # {}

\* Mutant of FmNameMatch: one shared name word is enough.
FmNameMatchOneWord(scraped, existing) ==
    LET s_name_words == LowerWords(Get(scraped, "name", None)) \ NameStopwords
        e_name_words == LowerWords(Get(existing, "name", None)) \ NameStopwords
    IN  s_name_words \cap e_name_words # {}

\* firemics.py: "if s_name_words & e_name_words and len(...) >= 2"
FmNameMatch(scraped, existing) ==
    LET s_name_words == LowerWords(Get(scraped, "name", None)) \ NameStopwords
        e_name_words == LowerWords(Get(existing, "name", None)) \ NameStopwords
    IN  /\ s_name_words \cap e_name_words # {}
        /\ Cardinality(s_name_words \cap e_name_words) >= 2

\* Mutant of FmScan: a row of another weekday ends the loop (break for continue).
RECURSIVE FmScanBreak(_, _, _)
FmScanBreak(scraped, existing_mics_df, j) ==
    IF j > Len(existing_mics_df) THEN FALSE
    ELSE IF Get(existing_mics_df[j], "day_of_week", "") # Get(scraped, "day_of_week", "")
         THEN FALSE
    ELSE IF FmVenueMatch(scraped, existing_mics_df[j]) THEN TRUE
    ELSE IF FmNameMatch(scraped, existing_mics_df[j]) THEN TRUE
    ELSE FmScanBreak(scraped, existing_mics_df, j + 1)

\* firemics.py: the inner loop over existing_mics_df.iterrows(), from row j on
RECURSIVE FmScan(_, _, _)
FmScan(scraped, existing_mics_df, j) ==
    IF j > Len(existing_mics_df) THEN FALSE
    ELSE IF Get(existing_mics_df[j], "day_of_week", "") # Get(scraped, "day_of_week", "")
         THEN FmScan(scraped, existing_mics_df, j + 1)
    ELSE IF FmVenueMatch(scraped, existing_mics_df[j]) THEN TRUE
    ELSE IF FmNameMatch(scraped, existing_mics_df[j]) THEN TRUE
    ELSE FmScan(scraped, existing_mics_df, j + 1)

\* Mutant of FmSkips: the weekday guard is missing.
FmSkipsNothing(scraped) == FALSE

\* firemics.py: "if not s_day: continue"
FmSkips(scraped) == ~Truthy(Get(scraped, "day_of_week", ""))

RECURSIVE FmLoop(_, _, _, _)
FmLoop(scraped_mics, existing_mics_df, i, acc) ==
    IF i > Len(scraped_mics) THEN acc
    ELSE FmLoop(scraped_mics, existing_mics_df, i + 1,
                Handle(acc, scraped_mics[i], FmSkips(scraped_mics[i]),
                       FmScan(scraped_mics[i], existing_mics_df, 1)))

compare_firemics_with_database(scraped_mics, existing_mics_df) ==
    FmLoop(scraped_mics, existing_mics_df, 1, EmptyComparison)

Sections == {"badslava", "firemics"}

\* The matcher of a Settings section.
Compare(sec, scraped_mics, existing_mics_df) ==
    IF sec = "badslava"
    THEN compare_badslava_with_database(scraped_mics, existing_mics_df)
    ELSE compare_firemics_with_database(scraped_mics, existing_mics_df)

\* ----------------------------------------------------------- record store

\* The text columns of open_mics the model carries, and those declared NOT NULL.
Columns == {"name", "venue", "address", "day_of_week"}

NotNullColumns == {"name", "venue", "day_of_week"}

Restrict(d, keys) == [k \in keys |-> d[k]]

\* The columns of open_mics.
TableColumns ==
    {"id", "name", "venue", "address", "neighborhood", "borough", "day_of_week", "start_time",
     "display_time", "end_time", "cost", "set_length_min", "signup_method", "signup_url",
     "signup_notes", "venue_url", "instagram", "urgency", "urgency_note", "advance_days",
     "mic_rating", "notes", "latitude", "longitude", "is_active", "is_biweekly", "created_at",
     "updated_at"}

\* The INSERT is refused (add_mic raises) when a NOT NULL column gets no value
\* or a key is no column of the table.
InsertRefused(clean_data) ==
    \/ \E c \in NotNullColumns : c \notin DOMAIN clean_data \/ clean_data[c] = None
    \/ \E k \in DOMAIN clean_data : k \notin TableColumns

\* Mutant of CleanData: a caller's id is kept.
CleanDataKeepsId(data_dict) == Restrict(data_dict, DOMAIN data_dict \ {"source"})

\* add_mic: "clean_data = {k: v ... if k not in ['id', 'source']}"
CleanData(data_dict) == Restrict(data_dict, DOMAIN data_dict \ {"id", "source"})

\* add_mic(data_dict): the table after the call.  A column of the INSERT gets
\* its value; without one SERIAL gives the next id, is_active defaults to TRUE
\* and a text column is NULL.  An id that a row has already is refused
\* (PRIMARY KEY).
add_mic(table, data_dict) ==
    LET clean_data == CleanData(data_dict)
    IN  IF \/ InsertRefused(clean_data)
           \/ "id" \in DOMAIN clean_data /\ \E i \in DOMAIN table : table[i].id = clean_data.id
        THEN table
        ELSE Append(table,
                    [c \in Columns \cup {"id", "is_active"} |->
                        IF c \in DOMAIN clean_data THEN clean_data[c]
                        ELSE IF c = "id" THEN Len(table) + 1
                        ELSE IF c = "is_active" THEN TRUE
                        ELSE None])

\* Mutant of deactivate_mic: the row is deleted.
DeactivateRemoves(table, mic_id) == SelectSeq(table, LAMBDA row : row.id # mic_id)

\* deactivate_mic(mic_id): "UPDATE open_mics SET is_active = FALSE ... WHERE id = %s"
deactivate_mic(table, mic_id) ==
    [i \in DOMAIN table |->
        IF table[i].id = mic_id THEN [table[i] EXCEPT !.is_active = FALSE] ELSE table[i]]

\* The table is not let grow beyond MaxRows rows.
MaxRows == 3

PermutationsOf == [n \in 0..(MaxRows + 1) |-> Permutations(1..n)]

\* The orderings of a sequence.
Orderings(seq) ==
    {[i \in 1..Len(seq) |-> seq[p[i]]] : p \in PermutationsOf[Len(seq)]}

IsActive(row) == row.is_active

\* Mutant of get_all_mics: the inactive rows are read too.
GetAllMicsAnyRow(table) == Orderings(table)

\* get_all_mics(): the active rows, ORDER BY day_of_week, start_time.  The order
\* depends on the database collation and is open among rows with equal keys:
\* every ordering of the active rows is a possible result.
get_all_mics(table) == Orderings(SelectSeq(table, IsActive))

\* ------------------------------------------------- Settings page (scrapers)

NoComparison == [present |-> FALSE, new_mics |-> <<>>, matched_mics |-> 0]

NoSession == [section |-> "none", mics |-> <<>>, comparison |-> NoComparison]

NotAdded == [set |-> FALSE, section |-> "none", mics |-> <<>>]

\* How a run of a button handler ended: whether an extractor returned in it,
\* whether (ghost) the write of its scrape_log row failed, and the exception that
\* left the handler, "none" when it ran to its end.
Ran(scraped, log_failed, raised) ==
    [scraped |-> scraped, log_failed |-> log_failed, raised |-> raised]

NoRun == Ran(FALSE, FALSE, "none")

\* log_scrape(source, status, notes): the table after the INSERT.
log_scrape(table, source, status) == Append(table, [source |-> source, status |-> status])

\* What the page stores of a matcher result: {"new_mics": ..., "matched_mics": ...}
Stored(compared) ==
    [present |-> TRUE, new_mics |-> compared.new_mics, matched_mics |-> compared.matched_mics]

\* "insert_data = {k: v for k, v in mic.items() if k != 'source' and v is not None}"
InsertData(mic) == Restrict(mic, {k \in DOMAIN mic : k # "source" /\ mic[k] # None})

\* The records of a pool at the positions in S, in the pool's order.
RECURSIVE Pick(_, _, _)
Pick(pool, S, i) ==
    IF i > Len(pool) THEN <<>>
    ELSE (IF i \in S THEN <<pool[i]>> ELSE <<>>) \o Pick(pool, S, i + 1)

\* The selections of at most n records of a pool.
Selections(pool, n) ==
    {Pick(pool, S, 1) : S \in {T \in SUBSET (1..Len(pool)) : Cardinality(T) <= n}}

MaxFresh == 2

\* The lists a scrape may return, per section.
FreshLists == [sec \in Sections |-> Selections(FreshPool(sec), MaxFresh)]

\* The tables at the start: up to two rows of the pool, ids by position.  The
\* order of the rows in the table is immaterial, get_all_mics yields every one.
Renumber(rows) == [i \in DOMAIN rows |-> [rows[i] EXCEPT !.id = i]]

InitialTables == {Renumber(l) : l \in Selections(StorePool, 2)}

\* "Scrape ..." button, from the scraper's result on: the result is kept in the
\* session and, when it holds mics, compared with get_all_mics().  A scrape after
\* Add All is the same extraction run again: it yields the same candidates.
ScrapeButton ==
    /\ session.section = "none"
    /\ \E sec \in Sections : \E scraped_mics \in FreshLists[sec] :
         /\ added_from.set => (sec = added_from.section /\ scraped_mics = added_from.mics)
         /\ \/ /\ scrape_log' = log_scrape(scrape_log, sec,
                                            IF scraped_mics # <<>> THEN "success" ELSE "error")
               /\ run' = Ran(TRUE, FALSE, "none")
               /\ \E existing \in get_all_mics(open_mics) :
                    LET compared == Compare(sec, scraped_mics, existing)
                    IN  /\ session' = [section |-> sec, mics |-> scraped_mics,
                                       comparison |-> IF scraped_mics # <<>>
                                                      THEN Stored(compared) ELSE NoComparison]
                        /\ outcome' = IF scraped_mics # <<>> THEN compared.verdicts ELSE <<>>
            \/ \* log_scrape raises: the INSERT is not made and the handler ends there
               /\ run' = Ran(TRUE, TRUE, "psycopg2.Error")
               /\ UNCHANGED <<scrape_log, session, outcome>>
    /\ UNCHANGED <<open_mics, added_from>>
    /\ UNCHANGED <<scrapeVars, timeVars, storeVars, parseVars, planVars>>

\* "Add to my database" button of new mic i: insert it, then compare again.
AddOne(i) ==
    /\ session.comparison.present
    /\ ~added_from.set
    /\ i \in 1..Len(session.comparison.new_mics)
    /\ Len(open_mics) < MaxRows
    /\ LET table == add_mic(open_mics, InsertData(session.comparison.new_mics[i]))
       IN  /\ open_mics' = table
           /\ \E existing \in get_all_mics(table) :
                LET compared == Compare(session.section, session.mics, existing)
                IN  /\ session' = [session EXCEPT !.comparison = Stored(compared)]
                    /\ outcome' = compared.verdicts
    /\ run' = NoRun
    /\ UNCHANGED <<added_from, scrape_log>>
    /\ UNCHANGED <<scrapeVars, timeVars, storeVars, parseVars, planVars>>

\* The loop of "Add All": add_mic on every new mic, in order.
RECURSIVE AddEach(_, _, _)
AddEach(table, new_mics, i) ==
    IF i > Len(new_mics) THEN table
    ELSE AddEach(add_mic(table, InsertData(new_mics[i])), new_mics, i + 1)

\* "Add All N New Mics" button: insert every new mic, clear the session.
AddAll ==
    /\ session.comparison.present
    /\ ~added_from.set
    /\ session.comparison.new_mics # <<>>
    /\ Len(open_mics) + Len(session.comparison.new_mics) <= MaxRows
    /\ open_mics' = AddEach(open_mics, session.comparison.new_mics, 1)
    /\ session' = NoSession
    /\ added_from' = [set |-> TRUE, section |-> session.section, mics |-> session.mics]
    /\ run' = NoRun
    /\ UNCHANGED <<outcome, scrape_log>>
    /\ UNCHANGED <<scrapeVars, timeVars, storeVars, parseVars, planVars>>

\* "Yes, delete" of the Settings page: delete_mic_hard on a mic of the select
\* box, which lists get_all_mics().  The delete followed here is one made
\* before a scrape, while the page shows no scrape result.
SettingsDelete ==
    /\ session.section = "none"
    /\ ~added_from.set
    /\ \E i \in DOMAIN open_mics :
         /\ open_mics[i].is_active
         /\ open_mics' = deactivate_mic(open_mics, open_mics[i].id)
         /\ mic_plans' = {p \in mic_plans : p.open_mic_id # open_mics[i].id}
    /\ run' = NoRun
    /\ UNCHANGED <<session, outcome, added_from, scrape_log, my_sets>>
    /\ UNCHANGED <<scrapeVars, timeVars, parseVars, planVars>>

\* The caller has nothing yet.
NoResult == [returned |-> FALSE, raised |-> "none", mics |-> <<>>, errors |-> <<>>]

NoSite == [response |-> [raises |-> "none", status_code |-> 0], page |-> [is |-> "none"]]

\* The locals before the call; faults counts what went wrong on the site so far.
NoLocals ==
    [i |-> 0, pattern |-> 0, events |-> <<>>, seen_event_ids |-> {}, raised |-> "none",
     faults |-> 0]

\* No conversion is under way.
NoTimes ==
    /\ time_strs = <<>>
    /\ clocks = <<>>
    /\ military_times = <<>>
    /\ display_times = <<>>
    /\ reconverted = <<>>
    /\ tpc = "off"

\* The candidate before the first time token: "current_mic = None".
NoCurrentMic == [none |-> TRUE]

\* No list has been returned.
NotParsed == <<[none |-> TRUE]>>

\* No session of the Weekly Calendar page is open.
NoPlan ==
    /\ calendar = <<>>
    /\ last_plan_call = <<>>
    /\ going_added = <<>>

\* No page is being parsed.
NoParse ==
    /\ lines = <<>>
    /\ line_no = 0
    /\ current_mic = NoCurrentMic
    /\ page_mics = <<>>
    /\ returned = NotParsed

\* No extractor is being run.
NotCalled ==
    /\ extractor = "none"
    /\ pc = "idle"
    /\ site = NoSite
    /\ errors = <<>>
    /\ mics = <<>>
    /\ locals = NoLocals
    /\ requests = 0
    /\ hit = {}
    /\ result = NoResult

MatchInit ==
    /\ open_mics \in InitialTables
    /\ session = NoSession
    /\ outcome = <<>>
    /\ added_from = NotAdded
    /\ scrape_log = <<>>
    /\ run = NoRun
    /\ my_sets = <<>>
    /\ mic_plans = {}
    /\ NotCalled
    /\ NoTimes
    /\ NoParse
    /\ NoPlan

MatchNext ==
    \/ ScrapeButton
    \/ \E i \in 1..MaxFresh : AddOne(i)
    \/ AddAll
    \/ SettingsDelete

SpecMatch == MatchInit /\ [][MatchNext]_vars

\* ------------------------------------------------------ matcher properties

Existing == SelectSeq(open_mics, IsActive)

Compared == session.comparison.present

Fresh == session.mics

NewMics == session.comparison.new_mics

MatchedMics == session.comparison.matched_mics

InNewMics(mic) == \E k \in 1..Len(NewMics) : NewMics[k] = mic

SameDayRow(mic) ==
    \E j \in 1..Len(Existing) : Existing[j].day_of_week = mic.day_of_week

\* The matcher passes a record over: no weekday, or (Bad Slava) no venue.
PassedOver(mic) ==
    \/ ~Truthy(mic.day_of_week)
    \/ session.section = "badslava" /\ Strip(Chars[OrEmpty(mic.venue)]) = <<>>

\* C1: a fresh record that has a weekday is counted matched only if a row has
\* exactly its day_of_week, and when no row shares its weekday it is put in
\* new_mics and not counted matched.
C1_DayDecides ==
    Compared =>
        /\ MatchedMics = Cardinality({i \in 1..Len(Fresh) : outcome[i] = "matched"})
        /\ \A i \in 1..Len(Fresh) :
            Truthy(Fresh[i].day_of_week) =>
                /\ outcome[i] = "matched" => SameDayRow(Fresh[i])
                /\ ~SameDayRow(Fresh[i]) => outcome[i] = "new" /\ InNewMics(Fresh[i])

\* C2: after the matcher ran, every record of new_mics was inserted with add_mic
\* and the matcher ran again on the same fresh records against get_all_mics(),
\* the second run's new_mics is empty.
C2_SecondRunFindsNothingNew ==
    (Compared /\ added_from.set) => NewMics = <<>>

\* C3: the matcher returns the same new_mics and the same matched_mics for every
\* ordering of the existing rows.
C3_OrderIndependent ==
    Compared =>
        \A existing \in Orderings(Existing) :
            LET again == Compare(session.section, Fresh, existing)
            IN  /\ again.new_mics = NewMics
                /\ again.matched_mics = MatchedMics

\* A record is matched by a row that is not the first of the table.
C3_Witness ==
    /\ Compared
    /\ Len(Existing) >= 2
    /\ \E i \in 1..Len(Fresh) :
        /\ outcome[i] = "matched"
        /\ Compare(session.section, <<Fresh[i]>>, <<Existing[1]>>).matched_mics = 0

\* The claim's tokens: lowercase, split on whitespace.
TokensOf == [t \in Texts |-> SplitSet(Lower(Chars[t]))]

VenueTokens(mic) == TokensOf[OrEmpty(mic.venue)] \ {Chars[w] : w \in {"the", "a", "an", "of", "at", "in"}}

NameTokens(mic) ==
    TokensOf[OrEmpty(mic.name)] \ {Chars[w] : w \in {"the", "a", "an", "of", "at", "in", "open", "mic"}}

LexicalOverlap(mic, row) ==
    /\ row.day_of_week = mic.day_of_week
    /\ \/ Cardinality(VenueTokens(mic) \cap VenueTokens(row)) >= 1
       \/ Cardinality(NameTokens(mic) \cap NameTokens(row)) >= 2

\* C4: compare_firemics_with_database counts a fresh record with a weekday as
\* matched if and only if some row has the same day_of_week and shares with it at
\* least one venue token or at least two name tokens (stopwords removed).
C4_FiremicsLexicalOverlap ==
    (Compared /\ session.section = "firemics") =>
        \A i \in 1..Len(Fresh) :
            Truthy(Fresh[i].day_of_week) =>
                /\ outcome[i] = "matched" <=>
                      \E j \in 1..Len(Existing) : LexicalOverlap(Fresh[i], Existing[j])
                /\ outcome[i] = "new" <=>
                      ~\E j \in 1..Len(Existing) : LexicalOverlap(Fresh[i], Existing[j])

\* "The Green Room" on Tuesday against "Green Room Comedy" on Tuesday is matched.
C4_Witness ==
    /\ Compared
    /\ session.section = "firemics"
    /\ \E i \in 1..Len(Fresh) : \E j \in 1..Len(Existing) :
        /\ Fresh[i].venue = "The Green Room"
        /\ Fresh[i].day_of_week = "Tuesday"
        /\ Existing[j].venue = "Green Room Comedy"
        /\ Existing[j].day_of_week = "Tuesday"
        /\ Len(Existing) = 1
        /\ outcome[i] = "matched"

AddressPrefixAgrees(mic, row) ==
    /\ row.day_of_week = mic.day_of_week
    /\ Truthy(mic.address)
    /\ Truthy(row.address)
    /\ Lower(Slice(Chars[mic.address], 10)) = Lower(Slice(Chars[row.address], 10))

\* C5: in both matchers a fresh record (one the matcher does not pass over) whose
\* day_of_week equals a row's and whose address agrees with the row's on the first
\* 10 characters, case-insensitively, is matched, whatever their venues and names.
C5_AddressPrefixMatches ==
    Compared =>
        \A i \in 1..Len(Fresh) : \A j \in 1..Len(Existing) :
            (AddressPrefixAgrees(Fresh[i], Existing[j]) /\ ~PassedOver(Fresh[i]))
                => outcome[i] = "matched"

HasDay(mic) == Truthy(mic.day_of_week)

\* C6: a fresh record with no or an empty day_of_week is in neither new_mics nor
\* matched_mics, and the other records are classified as they are without it.
C6_NoDaySkipped ==
    Compared =>
        LET without == Compare(session.section, SelectSeq(Fresh, HasDay), Existing)
        IN  /\ \A i \in 1..Len(Fresh) :
                ~HasDay(Fresh[i]) => outcome[i] = "skipped" /\ ~InNewMics(Fresh[i])
            /\ NewMics = without.new_mics
            /\ MatchedMics = without.matched_mics

\* A batch with a record without weekday, one with an empty weekday aside a
\* record that is classified.
C6_Witness ==
    /\ Compared
    /\ Len(Fresh) = 2
    /\ \E i, k \in 1..Len(Fresh) :
        /\ ~HasDay(Fresh[i])
        /\ outcome[i] = "skipped"
        /\ outcome[k] = "matched"

\* ------------------------------------------------------------ extractors

Extractors == {"badslava", "firemics", "eastville", "comedy_listings"}

\* The extractors that issue one GET.
SingleFetch == {"badslava", "firemics", "eastville"}

\* "needle in hay", on characters
Contains(hay, needle) ==
    \E k \in 0..(Len(hay) - Len(needle)) : SubSeq(hay, k + 1, k + Len(needle)) = needle

\* s.split(sep)[0], on characters
BeforeFirst(s, sep) ==
    IF \E k \in DOMAIN s : s[k] = sep
    THEN SubSeq(s, 1, (CHOOSE k \in DOMAIN s : s[k] = sep /\ \A m \in 1..(k - 1) : s[m] # sep) - 1)
    ELSE s

\* The text of a sequence of characters.
FromChars(cs) == CHOOSE t \in Texts : Chars[t] = cs

\* What requests' get() raises when it does not answer: a read timeout, a connect
\* timeout (both a ConnectionError and a Timeout), a refused connection, and a
\* RequestException that is neither.
TransportExceptions == {"ReadTimeout", "ConnectTimeout", "ConnectionError", "TooManyRedirects"}

\* isinstance(exc, class), for the classes the except clauses name
IsA(exc, class) ==
    CASE class = "Exception" -> TRUE
      [] class = "Timeout" -> exc \in {"ReadTimeout", "ConnectTimeout"}
      [] class = "ConnectionError" -> exc \in {"ConnectionError", "ConnectTimeout"}
      [] OTHER -> exc = class

\* Mutant of ExceptClauses: the catch-all clause is missing.
ExceptClausesNoCatchAll ==
    << [class |-> "Timeout",         says |-> "Request timed out after 15 seconds."],
       [class |-> "ConnectionError", says |-> "Couldn't connect."] >>

\* The except clauses that close the try of every extractor, in order.
ExceptClauses ==
    << [class |-> "Timeout",         says |-> "Request timed out after 15 seconds."],
       [class |-> "ConnectionError", says |-> "Couldn't connect."],
       [class |-> "Exception",       says |-> "Unexpected error"] >>

\* The clauses that catch exc.
Catching(exc) == {k \in DOMAIN ExceptClauses : IsA(exc, ExceptClauses[k].class)}

\* The first clause that catches exc.
FirstCatching(exc) == CHOOSE k \in Catching(exc) : \A m \in Catching(exc) : k <= m

\* What the site answers to a GET.
Raising(exc) == [raises |-> exc, status_code |-> 0]

Answering(status_code) == [raises |-> "none", status_code |-> status_code]

StatusCodes == {200, 204, 404, 500}

Responses == {Raising(exc) : exc \in TransportExceptions} \cup {Answering(c) : c \in StatusCodes}

\* Mutant of StatusRefused: only a 4xx status ends the run.
StatusRefusedClientOnly(status_code) == status_code \in 400..499

\* "if response.status_code != 200"
StatusRefused(status_code) == status_code # 200

\* The dict an extractor returns.
Returned(ms, es) == [returned |-> TRUE, raised |-> "none", mics |-> ms, errors |-> es]

\* "errors.append(...); return {"mics": [], ..., "errors": errors}"
GiveUp(says) ==
    /\ errors' = Append(errors, says)
    /\ result' = Returned(<<>>, Append(errors, says))
    /\ pc' = "done"

\* An exception raised inside the try: control passes to the except clauses.
Raise(exc) ==
    /\ locals' = [locals EXCEPT !.raised = exc]
    /\ pc' = "except"

\* The numbers of items a page holds at most.
MaxItems == 2

\* The sequences of at most n elements of a set.
RECURSIVE SeqsUpTo(_, _)
SeqsUpTo(S, n) ==
    IF n = 0 THEN {<<>>}
    ELSE LET shorter == SeqsUpTo(S, n - 1)
         IN  shorter \cup {Append(l, x) : l \in {y \in shorter : Len(y) = n - 1}, x \in S}

\* ------------------------------------------------------- time conversion

Digits == <<"0", "1", "2", "3", "4", "5", "6", "7", "8", "9">>

IsDigit(c) == \E d \in DOMAIN Digits : Digits[d] = c

\* int() of one digit
DigitValue(c) == (CHOOSE d \in DOMAIN Digits : Digits[d] = c) - 1

\* "%02d"
TwoDigits(n) == <<Digits[(n \div 10) + 1], Digits[(n % 10) + 1]>>

\* str.replace(c, ""), for one character c
Remove(s, c) == SelectSeq(s, LAMBDA x : x # c)

\* str.replace(" ", "")
RemoveSpaces(s) == Remove(s, " ")

\* str.lstrip("0")
RECURSIVE LStripZeros(_)
LStripZeros(s) == IF s # <<>> /\ Head(s) = "0" THEN LStripZeros(Tail(s)) ELSE s

\* What one strptime directive (or literal character) of a format can match at
\* the head of the data, in the order its pattern tries the alternatives: each
\* the number read and the characters taken.
\*   %I  1[0-2]|0[1-9]|[1-9]      %H  2[0-3]|[0-1]\d|\d
\*   %M  [0-5]\d|\d               %p  am|pm, whatever the case
DirectiveMatches(directive, cs) ==
    LET two == Len(cs) >= 2 /\ IsDigit(cs[1]) /\ IsDigit(cs[2])
        one == Len(cs) >= 1 /\ IsDigit(cs[1])
        v1 == DigitValue(cs[1])
        v2 == 10 * DigitValue(cs[1]) + DigitValue(cs[2])
        Both(ok2, ok1) == (IF ok2 THEN <<[value |-> v2, taken |-> 2]>> ELSE <<>>)
                          \o (IF ok1 THEN <<[value |-> v1, taken |-> 1]>> ELSE <<>>)
    IN  CASE directive = "%I" -> Both(two /\ v2 \in 1..12, one /\ v1 \in 1..9)
          [] directive = "%H" -> Both(two /\ v2 \in 0..23, one)
          [] directive = "%M" -> Both(two /\ v2 \in 0..59, one)
          [] directive = "%p" ->
                 IF Len(cs) >= 2 /\ Upper(SubSeq(cs, 1, 2)) = <<"A", "M">>
                 THEN <<[value |-> 0, taken |-> 2]>>
                 ELSE IF Len(cs) >= 2 /\ Upper(SubSeq(cs, 1, 2)) = <<"P", "M">>
                 THEN <<[value |-> 1, taken |-> 2]>>
                 ELSE <<>>
          [] OTHER -> IF cs # <<>> /\ Head(cs) = directive
                      THEN <<[value |-> 0, taken |-> 1]>> ELSE <<>>

\* The first match of the format at the start of the data, as the pattern of
\* the format finds it: the numbers read and the characters left over; <<>> when
\* there is none.
RECURSIVE FormatMatch(_, _)
FormatMatch(format, cs) ==
    IF format = <<>> THEN << [values |-> <<>>, rest |-> cs] >>
    ELSE LET heads == DirectiveMatches(Head(format), cs)
             Try[k \in 1..(Len(heads) + 1)] ==
                 IF k > Len(heads) THEN <<>>
                 ELSE LET tail == FormatMatch(Tail(format),
                                              SubSeq(cs, heads[k].taken + 1, Len(cs)))
                      IN  IF tail = <<>> THEN Try[k + 1]
                          ELSE << [values |-> <<heads[k].value>> \o tail[1].values,
                                   rest |-> tail[1].rest] >>
         IN  Try[1]

\* datetime.strptime(data_string, format): ValueError when the data does not
\* match the format or unconverted data remains.
StrptimeRaises(cs, format) ==
    LET found == FormatMatch(format, cs)
    IN  found = <<>> \/ found[1].rest # <<>>

\* The (hour, minute) of datetime.strptime(data_string, format), for the three
\* formats the scrapers use.
Strptime(cs, format) ==
    LET values == FormatMatch(format, cs)[1].values
        Hour24(hour, pm) == IF pm = 1 THEN (IF hour # 12 THEN hour + 12 ELSE hour)
                            ELSE (IF hour = 12 THEN 0 ELSE hour)
    IN  CASE format = <<"%I", ":", "%M", "%p">> ->
                 [hour |-> Hour24(values[1], values[4]), minute |-> values[3]]
          [] format = <<"%I", "%p">> ->
                 [hour |-> Hour24(values[1], values[2]), minute |-> 0]
          [] format = <<"%H", ":", "%M">> ->
                 [hour |-> values[1], minute |-> values[3]]

\* dt.strftime("%H:%M")
Strftime24(dt) == TwoDigits(dt.hour) \o <<":">> \o TwoDigits(dt.minute)

\* Mutant of Strftime12: midnight and noon are written as hour 00.
Strftime12ZeroHour(dt) ==
    TwoDigits(dt.hour % 12) \o <<":">> \o TwoDigits(dt.minute)
    \o <<" ">> \o (IF dt.hour < 12 THEN <<"A", "M">> ELSE <<"P", "M">>)

\* dt.strftime("%I:%M %p")
Strftime12(dt) ==
    TwoDigits(IF dt.hour % 12 = 0 THEN 12 ELSE dt.hour % 12) \o <<":">> \o TwoDigits(dt.minute)
    \o <<" ">> \o (IF dt.hour < 12 THEN <<"A", "M">> ELSE <<"P", "M">>)

\* "start_time = freq_start[:5] if freq_start else None", on characters; the
\* empty sequence stands for None, which the next line treats alike.
FreqStartTime(freq_start) == Slice(freq_start, 5)

\* Mutant of _convert_to_24hr: the hour is written without padding.
ConvertUnpadded(time_str) ==
    LET cleaned == RemoveSpaces(Upper(Strip(time_str)))
        format == IF \E k \in DOMAIN cleaned : cleaned[k] = ":"
                  THEN <<"%I", ":", "%M", "%p">> ELSE <<"%I", "%p">>
    IN  IF StrptimeRaises(cleaned, format) THEN cleaned
        ELSE LStripZeros(Strftime24(Strptime(cleaned, format)))

\* _convert_to_24hr of badslava.py and of comedy_listings.py (the same body), on
\* the characters of time_str
_convert_to_24hr(time_str) ==
    LET cleaned == RemoveSpaces(Upper(Strip(time_str)))
        format == IF \E k \in DOMAIN cleaned : cleaned[k] = ":"
                  THEN <<"%I", ":", "%M", "%p">> ELSE <<"%I", "%p">>
    IN  IF StrptimeRaises(cleaned, format) THEN cleaned
        ELSE Strftime24(Strptime(cleaned, format))

\* _format_display_time of firemics.py, on the characters of time_24h
_format_display_time(time_24h) ==
    LET format == <<"%H", ":", "%M">>
    IN  IF StrptimeRaises(time_24h, format) THEN time_24h
        ELSE LStripZeros(Strftime12(Strptime(time_24h, format)))

\* --------------------------------------------------------- scrape_badslava

\* re.sub(r'<.*?>', '', text), on characters
RECURSIVE StripTags(_)
StripTags(cs) ==
    IF cs = <<>> THEN <<>>
    ELSE IF Head(cs) = "<" /\ \E k \in 2..Len(cs) : cs[k] = ">"
         THEN LET close == CHOOSE k \in 2..Len(cs) :
                               cs[k] = ">" /\ \A m \in 2..(k - 1) : cs[m] # ">"
              IN  StripTags(SubSeq(cs, close + 1, Len(cs)))
         ELSE <<Head(cs)>> \o StripTags(Tail(cs))

\* .replace("\\/", "/"), on characters
RECURSIVE Unescape(_)
Unescape(cs) ==
    IF cs = <<>> THEN <<>>
    ELSE IF Len(cs) >= 2 /\ cs[1] = "\\" /\ cs[2] = "/"
         THEN <<"/">> \o Unescape(SubSeq(cs, 3, Len(cs)))
         ELSE <<Head(cs)>> \o Unescape(Tail(cs))

\* Mutant of _strip_html: the tags are kept.
KeepTags(text) == text

_strip_html(text) == FromChars(Unescape(StripTags(Chars[text])))

\* Whether the characters of old stand at position k of cs.
At(cs, k, old) == k + Len(old) - 1 <= Len(cs) /\ SubSeq(cs, k, k + Len(old) - 1) = old

\* str.replace(old, new), on characters
RECURSIVE ReplaceAll(_, _, _)
ReplaceAll(cs, old, new) ==
    IF cs = <<>> THEN <<>>
    ELSE IF At(cs, 1, old) THEN new \o ReplaceAll(SubSeq(cs, Len(old) + 1, Len(cs)), old, new)
    ELSE <<Head(cs)>> \o ReplaceAll(Tail(cs), old, new)

\* str.split(sep), on characters: the pieces between the separators
RECURSIVE SplitOn(_, _)
SplitOn(cs, sep) ==
    IF \E k \in DOMAIN cs : At(cs, k, sep)
    THEN LET first == CHOOSE k \in DOMAIN cs : At(cs, k, sep) /\ \A m \in 1..(k - 1) : ~At(cs, m, sep)
         IN  <<SubSeq(cs, 1, first - 1)>> \o SplitOn(SubSeq(cs, first + Len(sep), Len(cs)), sep)
    ELSE <<cs>>

NYC_CITIES ==
    {"new york", "brooklyn", "bronx", "queens", "staten island",
     "long island city", "astoria", "flushing", "jamaica"}

valid_days ==
    {"Monday", "Tuesday", "Wednesday", "Thursday", "Friday", "Saturday", "Sunday"}

\* The entries of the "venue" array, as re.findall gives them.
EntryPool ==
    << "Tuesday<br><br><b>The Green Room</b><br>487 Atlantic Ave<br>Brooklyn, NY<br>7:00pm",
       "Tuesday<br>Open Mic",
       "Monday<br>Open Mic<br>The Golden Pen<br>12 Main St<br>Albany, NY<br>7:00pm",
       "Tues<br>Open Mic<br>The Golden Pen<br>12 Main St<br>Brooklyn, NY<br>7:00pm",
       "Monday<br>Test Mic<br>\n<b>Test Venue</b><br>12 Main St<br>New York, NY<br>7:00 PM<br> Free",
       "Tuesday<br>Open Mic<br>The Golden Pen<br>12 Main St<br>Brooklyn, NY<br>",
       "Wednesday<br>Open Mic<br>The Golden Pen<br>12 Main St<br>Brooklyn, NY<br>tbd<br>$5" >>

\* A Bad Slava page: with or without the "var venue = [...];" array.
BsPage(has_array, entries) == [is |-> "badslava", has_array |-> has_array, entries |-> entries]

BsPages ==
    {BsPage(FALSE, <<>>)} \cup {BsPage(TRUE, es) : es \in Selections(EntryPool, MaxItems)}

\* Mutant of ArrayMissing: the page is never taken to lack the array.
ArrayAlwaysThere(page) == FALSE

\* "if not array_match"
ArrayMissing(page) == ~page.has_array

\* "is_nyc = any(nyc_city in city_lower for nyc_city in NYC_CITIES)"
IsNyc(city_state) ==
    LET city_lower == Strip(BeforeFirst(Lower(Chars[city_state]), ","))
    IN  \E nyc_city \in NYC_CITIES : Contains(city_lower, Chars[nyc_city])

\* The body of "for entry in entries": the mics the entry adds.
BsEntryMics(entry) ==
    LET pieces == SplitOn(Remove(Chars[entry], "\n"), <<"<", "b", "r", ">">>)
        fields == [k \in DOMAIN pieces |-> FromChars(Strip(pieces[k]))]
    IN  IF Len(fields) < 6 THEN <<>>
        ELSE LET day == FromChars(Strip(Chars[fields[1]]))
                 mic_name == FromChars(Strip(Chars[_strip_html(fields[2])]))
                 venue_name == FromChars(Strip(Chars[_strip_html(fields[3])]))
                 address == FromChars(Strip(Chars[_strip_html(fields[4])]))
                 city_state == FromChars(Strip(Chars[_strip_html(fields[5])]))
                 time_str == FromChars(Strip(Chars[fields[6]]))
                 cost == IF Len(fields) > 6
                         THEN FromChars(Strip(Chars[_strip_html(fields[7])])) ELSE None
                 military_time == FromChars(_convert_to_24hr(Chars[time_str]))
                 display_time ==
                     FromChars(ReplaceAll(ReplaceAll(Upper(Chars[time_str]),
                                                     <<"P", "M">>, <<" ", "P", "M">>),
                                          <<"A", "M">>, <<" ", "A", "M">>))
             IN  IF ~IsNyc(city_state) THEN <<>>
                 ELSE IF day \notin valid_days THEN <<>>
                 ELSE << Scraped(Mic(venue_name,
                                     IF mic_name = ""
                                     THEN FromChars(Chars[venue_name] \o Chars[" Open Mic"])
                                     ELSE mic_name,
                                     address, day, "badslava"),
                                 military_time, display_time, cost) >>

\* Steps 2 and 3 up to the loop: find the array and its entries.
BsLocate ==
    /\ pc = "locate"
    /\ extractor = "badslava"
    /\ hit' = hit \cup (IF site.page.has_array THEN {} ELSE {"structure"})
    /\ IF ArrayMissing(site.page)
       THEN /\ GiveUp("Could not find the 'venue' JavaScript array in the page.")
            /\ UNCHANGED locals
       ELSE /\ locals' = [locals EXCEPT !.events = site.page.entries, !.i = 1]
            /\ pc' = "entries"
            /\ UNCHANGED <<errors, result>>
    /\ UNCHANGED <<extractor, site, mics, requests>>
    /\ UNCHANGED <<matchVars, timeVars, storeVars, parseVars, planVars>>

\* One turn of "for entry in entries", or its end.
BsEntry ==
    /\ pc = "entries"
    /\ extractor = "badslava"
    /\ IF locals.i > Len(locals.events)
       THEN /\ pc' = "return"
            /\ UNCHANGED <<mics, locals>>
       ELSE /\ mics' = mics \o BsEntryMics(locals.events[locals.i])
            /\ locals' = [locals EXCEPT !.i = @ + 1]
            /\ UNCHANGED pc
    /\ UNCHANGED <<extractor, site, errors, requests, hit, result>>
    /\ UNCHANGED <<matchVars, timeVars, storeVars, parseVars, planVars>>

\* -------------------------------------------------------- scrape_eastville

\* A JSON value as json.loads gives it: what it is, the keys it has when a dict,
\* and what the keys the extractor reads hold.
Json(isa, has, type, name, startDate, price, event_isa, items) ==
    [isa |-> isa, has |-> has, type |-> type, name |-> name,
     startDate |-> startDate, price |-> price, event_isa |-> event_isa, items |-> items]

\* An event object, with "offers": {"price": price}.
Event(name, startDate, price) ==
    Json("dict", {"@type", "name", "startDate", "offers"}, "ComedyEvent",
         name, startDate, price, None, <<>>)

JsonList(items) == Json("list", {}, None, None, None, None, None, items)

JsonString == Json("str", {}, None, None, None, None, None, <<>>)

\* {"@type": "ItemList", "@graph": [...]}
Graph(items) == Json("dict", {"@type", "@graph"}, "ItemList", None, None, None, None, items)

\* {"event": [...]}, or {"event": {...}} with the one object as items
Wrapper(event_isa, items) == Json("dict", {"event"}, None, None, None, None, event_isa, items)

GoldenPen == Event("The Golden Pen Open Mic", "2026-01-13T18:00:00-05:00", "10.00")

Showcase == Event("Headliner Showcase", "2026-01-12T20:00:00-05:00", "0")

LateNight == Event("Late Night Open Mic", "tonight", None)

MeccaMic == Event("Mecca Mic", "2026-01-12T21:30:00-05:00", "TBD")

\* A <script type="application/ld+json"> tag: its .string (None when the tag is
\* empty) and what json.loads makes of it.
Tag(string, decodes, data) == [string |-> string, decodes |-> decodes, data |-> data]

EmptyTag == Tag(None, FALSE, JsonString)

BrokenTag == Tag("{", FALSE, JsonString)

TagPool ==
    { EmptyTag,
      BrokenTag,
      Tag("{...}", TRUE, GoldenPen),
      Tag("[...]", TRUE, JsonList(<<Showcase, LateNight>>)),
      Tag("{...}", TRUE, Graph(<<MeccaMic, GoldenPen>>)),
      Tag("{...}", TRUE, Wrapper("list", <<JsonString, GoldenPen>>)),
      Tag("{...}", TRUE, Wrapper("dict", <<Showcase>>)) }

EvPage(json_ld_tags) == [is |-> "eastville", json_ld_tags |-> json_ld_tags]

EvPages == {EvPage(tags) : tags \in SeqsUpTo(TagPool, MaxItems)}

\* json.loads(tag.string): the exception it raises, "none" when it returns.
LoadsRaises(tag) ==
    IF tag.string = None THEN "TypeError"
    ELSE IF ~tag.decodes THEN "JSONDecodeError"
    ELSE "none"

\* The events a decoded block adds to "events".
Extracted(data) ==
    IF data.isa = "list" THEN data.items
    ELSE IF data.isa = "dict"
         THEN IF "@type" \in data.has /\ data.type \in {"ComedyEvent", "Event"} THEN <<data>>
              ELSE IF "@graph" \in data.has THEN data.items
              ELSE IF "event" \in data.has
                   THEN IF data.event_isa = "list" THEN data.items ELSE <<data.items[1]>>
                   ELSE <<>>
         ELSE <<>>

open_mic_keywords ==
    {"open mic", "pen mic", "mecca mic", "new sh", "no name", "ethically ambiguous",
     "trauma dump", "late night open", "marathon"}

\* datetime.fromisoformat(...).strftime("%A"), for the dates it parses
IsoWeekday ==
    "2026-01-13T18:00:00-05:00" :> "Tuesday" @@
    "2026-01-12T20:00:00-05:00" :> "Monday" @@
    "2026-01-12T21:30:00-05:00" :> "Monday"

\* The time of day of datetime.fromisoformat(...), for the dates it parses
IsoClock ==
    "2026-01-13T18:00:00-05:00" :> [hour |-> 18, minute |-> 0] @@
    "2026-01-12T20:00:00-05:00" :> [hour |-> 20, minute |-> 0] @@
    "2026-01-12T21:30:00-05:00" :> [hour |-> 21, minute |-> 30]

\* The strings float() parses, with their sign.
FloatSign == "10.00" :> 1 @@ "0" :> 0 @@ "0.00" :> 0

\* The body of "for event in events": the exception it raises ("none" when it
\* completes), the errors it appends before, the mics it appends.
EvEventStep(event) ==
    IF event.isa # "dict" THEN [raises |-> "AttributeError", errors |-> <<>>, mics |-> <<>>]
    ELSE LET event_name == IF "name" \in event.has THEN event.name ELSE ""
         IN  IF event_name = None
             THEN [raises |-> "AttributeError", errors |-> <<>>, mics |-> <<>>]
             ELSE IF ~\E kw \in open_mic_keywords : Contains(Lower(Chars[event_name]), Chars[kw])
             THEN [raises |-> "none", errors |-> <<>>, mics |-> <<>>]
             ELSE LET start_date_str == IF "startDate" \in event.has THEN event.startDate ELSE ""
                      parses == start_date_str \in DOMAIN IsoWeekday
                      day_of_week == IF Truthy(start_date_str) /\ parses
                                     THEN IsoWeekday[start_date_str] ELSE None
                      start_time == IF Truthy(start_date_str) /\ parses
                                    THEN FromChars(Strftime24(IsoClock[start_date_str]))
                                    ELSE None
                      display_time ==
                          IF Truthy(start_date_str) /\ parses
                          THEN FromChars(LStripZeros(Strftime12(IsoClock[start_date_str])))
                          ELSE None
                      price == IF "offers" \in event.has THEN event.price ELSE None
                      cost == IF Truthy(price) /\ FloatSign[price] > 0
                              THEN FromChars(<<"$">> \o Chars[price])
                              ELSE IF price \in {"0", "0.00"} THEN "Free"
                              ELSE None
                      date_errors == IF Truthy(start_date_str) /\ ~parses
                                     THEN <<"Couldn't parse date">> ELSE <<>>
                  IN  IF Truthy(price) /\ price \notin DOMAIN FloatSign
                      THEN [raises |-> "ValueError", errors |-> date_errors, mics |-> <<>>]
                      ELSE [raises |-> "none", errors |-> date_errors,
                            mics |-> << Scraped(Mic("EastVille Comedy Club", event_name,
                                                    "487 Atlantic Ave", day_of_week, "eastville"),
                                                start_time, display_time,
                                                IF Truthy(cost) THEN cost ELSE "1 drink min") >>]

\* Step 2: find the JSON-LD script tags.
EvLocate ==
    /\ pc = "locate"
    /\ extractor = "eastville"
    /\ hit' = hit \cup (IF site.page.json_ld_tags = <<>> THEN {"structure"} ELSE {})
    /\ IF site.page.json_ld_tags = <<>>
       THEN /\ GiveUp("No JSON-LD data found on the page.")
            /\ UNCHANGED locals
       ELSE /\ locals' = [locals EXCEPT !.events = <<>>, !.i = 1]
            /\ pc' = "blocks"
            /\ UNCHANGED <<errors, result>>
    /\ UNCHANGED <<extractor, site, mics, requests>>
    /\ UNCHANGED <<matchVars, timeVars, storeVars, parseVars, planVars>>

\* Step 3: one turn of "for tag in json_ld_tags", or its end.
EvBlock ==
    /\ pc = "blocks"
    /\ extractor = "eastville"
    /\ IF locals.i > Len(site.page.json_ld_tags)
       THEN /\ locals' = [locals EXCEPT !.i = 1]
            /\ pc' = "events"
            /\ UNCHANGED <<errors, hit>>
       ELSE LET tag == site.page.json_ld_tags[locals.i]
            IN  CASE LoadsRaises(tag) = "none" ->
                       /\ locals' = [locals EXCEPT !.events = @ \o Extracted(tag.data),
                                                   !.i = @ + 1]
                       /\ UNCHANGED <<pc, errors, hit>>
                  [] LoadsRaises(tag) = "JSONDecodeError" ->
                       /\ errors' = Append(errors, "Failed to parse a JSON-LD block")
                       /\ locals' = [locals EXCEPT !.i = @ + 1]
                       /\ hit' = hit \cup {"decode"}
                       /\ UNCHANGED pc
                  [] OTHER ->
                       /\ Raise(LoadsRaises(tag))
                       /\ hit' = hit \cup {"decode"}
                       /\ UNCHANGED errors
    /\ UNCHANGED <<extractor, site, mics, requests, result>>
    /\ UNCHANGED <<matchVars, timeVars, storeVars, parseVars, planVars>>

\* Steps 4 and 5: one turn of "for event in events", or its end.
EvEvent ==
    /\ pc = "events"
    /\ extractor = "eastville"
    /\ IF locals.i > Len(locals.events)
       THEN /\ pc' = "return"
            /\ UNCHANGED <<errors, mics, locals, hit>>
       ELSE LET step == EvEventStep(locals.events[locals.i])
            IN  /\ errors' = errors \o step.errors
                /\ mics' = mics \o step.mics
                /\ IF step.raises # "none"
                   THEN /\ Raise(step.raises)
                        /\ hit' = hit \cup {"unexpected"}
                   ELSE /\ locals' = [locals EXCEPT !.i = @ + 1]
                        /\ UNCHANGED <<pc, hit>>
    /\ UNCHANGED <<extractor, site, requests, result>>
    /\ UNCHANGED <<matchVars, timeVars, storeVars, parseVars, planVars>>

\* --------------------------------------------------------- scrape_firemics

WEEKDAY_MAP ==
    "monday" :> "Monday" @@ "tuesday" :> "Tuesday" @@ "wednesday" :> "Wednesday" @@
    "thursday" :> "Thursday" @@ "friday" :> "Friday" @@ "saturday" :> "Saturday" @@
    "sunday" :> "Sunday"

\* The keys from next_data down to the queries.
QueriesPath == <<"props", "pageProps", "dehydratedState", "queries">>

\* One element of frequency["instances"]: its "weekday", a list or a string (then
\* held as the one text of weekday), and its "start_time".
FreqInstance(weekday_isa, weekday, start_time) ==
    [weekday_isa |-> weekday_isa, weekday |-> weekday, start_time |-> start_time]

\* One element of the event data: what it is and, when a dict, what its "event"
\* holds and its own start_time.
Instance(isa, id, types, name, venue_name, raw_address, freq_instances, start_time, cost_option) ==
    [isa |-> isa, id |-> id, types |-> types, name |-> name, venue_name |-> venue_name,
     raw_address |-> raw_address,
     freq_instances |-> freq_instances, start_time |-> start_time,
     cost_option |-> cost_option]

InstancePool ==
    << Instance("dict", "evt-1", <<"comedy">>, "Tuesday Mic", "The Green Room ",
                "487 Atlantic Ave, Brooklyn, NY",
                <<FreqInstance("list", <<"TUESDAY", "monday">>, "19:00:00")>>, "", "free"),
       Instance("dict", "evt-1", <<"comedy">>, "Tuesday Mic", "The Green Room ",
                "487 Atlantic Ave, Brooklyn, NY",
                <<FreqInstance("str", <<"tuesday">>, "19:00:00")>>, "", "free"),
       Instance("dict", "evt-2", <<"music">>, "Open Mic", "", "", <<>>, "", None),
       Instance("str", None, <<>>, "", "", "", <<>>, "", None),
       Instance("dict", "evt-3", <<>>, None, "", "", <<>>, "", None),
       Instance("dict", "evt-4", <<>>, "Open Mic", "", "",
                <<FreqInstance("list", <<"funday">>, "20:00:00"),
                  FreqInstance("str", <<"friday">>, "")>>, "", None),
       Instance("dict", "evt-5", <<>>, "Open Mic", "The", "", <<>>,
                "2026-01-13T18:00:00-05:00", "custom"),
       Instance("dict", "evt-6", <<>>, "Open Mic", "The", "", <<>>, "tonight", None),
       Instance("dict", None, <<>>, None, "", "", <<>>, "", None),
       Instance("dict", None, <<"comedy">>, "Late Mic", "The Golden Pen", "12 Main St",
                <<FreqInstance("str", <<"wednesday">>, "21:30:00")>>, "", None),
       Instance("dict", None, <<"comedy">>, "Early Mic", "The Golden Pen", "12 Main St",
                <<FreqInstance("str", <<"friday">>, "17:00:00"),
                  FreqInstance("list", <<"saturday">>, "09:30:00")>>, "", "free"),
       Instance("dict", "evt-7", <<"comedy">>, "Open Mic", "The Golden Pen", "12 Main St",
                <<FreqInstance("list", <<"tuesday", "Tuesday">>, "19:00:00")>>, "", None) >>

\* One element of the queries: what it is, what its "state" is ("absent" when the
\* key is missing), what the state's "data" is, and the data when a list.
Query(isa, state_isa, data_isa, data) ==
    [isa |-> isa, state_isa |-> state_isa, data_isa |-> data_isa, data |-> data]

Queries(isa, items) == [isa |-> isa, items |-> items]

\* The decoded __NEXT_DATA__: how many keys of QueriesPath can be followed, what
\* the value is at which the walk stops short, and the queries at its end.
NextData(depth, stop, queries) == [depth |-> depth, stop |-> stop, queries |-> queries]

\* A FireMics page: the script tag, its .string, and what json.loads makes of it.
FmPage(tag, string, decodes, next_data) ==
    [is |-> "firemics", tag |-> tag, string |-> string, decodes |-> decodes,
     next_data |-> next_data]

NoQueries == Queries("list", <<>>)

FmPages ==
    { FmPage("absent", None, FALSE, NextData(0, "null", NoQueries)),
      FmPage("present", None, FALSE, NextData(0, "null", NoQueries)),
      FmPage("present", "{", FALSE, NextData(0, "null", NoQueries)) }
    \cup { FmPage("present", "{...}", TRUE, NextData(d, stop, NoQueries)) :
             d \in 0..(Len(QueriesPath) - 1), stop \in {"dict", "null", "list"} }
    \cup { FmPage("present", "{...}", TRUE, NextData(Len(QueriesPath), "list", qs)) :
             qs \in { Queries("null", <<>>),
                      NoQueries,
                      Queries("list", <<Query("str", "absent", "absent", <<>>)>>),
                      Queries("list", <<Query("dict", "null", "absent", <<>>)>>),
                      Queries("list", <<Query("dict", "dict", "dict", <<>>)>>) } }
    \cup { FmPage("present", "{...}", TRUE,
                  NextData(Len(QueriesPath), "list",
                           Queries("list", << Query("dict", "absent", "absent", <<>>),
                                              Query("dict", "dict", "list", instances) >>))) :
             instances \in Selections(InstancePool, MaxItems) }

\* "if not next_data_tag or not next_data_tag.string"
NextDataMissing(page) == page.tag = "absent" \/ ~Truthy(page.string)

\* next_data["props"]["pageProps"]["dehydratedState"]["queries"]: what it raises
PathRaises(next_data) ==
    IF next_data.depth = Len(QueriesPath) THEN "none"
    ELSE IF next_data.stop = "dict" THEN "KeyError"
    ELSE "TypeError"

\* "for query in queries", from query k on: what it raises and the event_instances
RECURSIVE QueryScan(_, _, _)
QueryScan(queries, k, event_instances) ==
    IF queries.isa # "list" THEN [raises |-> "TypeError", event_instances |-> <<>>]
    ELSE IF k > Len(queries.items) THEN [raises |-> "none", event_instances |-> event_instances]
    ELSE LET query == queries.items[k]
         IN  IF query.isa # "dict" \/ query.state_isa = "null"
             THEN [raises |-> "AttributeError", event_instances |-> <<>>]
             ELSE IF /\ query.state_isa = "dict"
                     /\ query.data_isa = "list"
                     /\ Len(query.data) > Len(event_instances)
                  THEN QueryScan(queries, k + 1, query.data)
                  ELSE QueryScan(queries, k + 1, event_instances)

\* _parse_cost, for a cost object that holds at most an "option".
_parse_cost(cost_option) ==
    IF ~Truthy(cost_option) THEN None
    ELSE IF cost_option = "free" THEN "Free"
    ELSE IF cost_option = "custom" THEN "Varies"
    ELSE None

\* Mutant of DayTimePairs: only the first weekday of a list is taken.
RECURSIVE DayTimePairsFirstDay(_, _)
DayTimePairsFirstDay(freq_instances, k) ==
    IF k > Len(freq_instances) THEN <<>>
    ELSE LET freq_inst == freq_instances[k]
             start_time == FromChars(FreqStartTime(Chars[freq_inst.start_time]))
             Day(wd) == LET lowered == FromChars(Lower(Chars[wd]))
                        IN  IF lowered \in DOMAIN WEEKDAY_MAP THEN WEEKDAY_MAP[lowered] ELSE ""
             days == IF freq_inst.weekday = <<>> THEN <<>> ELSE <<Day(freq_inst.weekday[1])>>
             pairs == [n \in DOMAIN days |-> [day |-> days[n], start_time |-> start_time]]
         IN  (IF ~Truthy(start_time) THEN <<>>
              ELSE SelectSeq(pairs, LAMBDA pair : Truthy(pair.day)))
             \o DayTimePairsFirstDay(freq_instances, k + 1)

\* "for freq_inst in freq_instances", from instance k on: the day_time_pairs.
RECURSIVE DayTimePairs(_, _)
DayTimePairs(freq_instances, k) ==
    IF k > Len(freq_instances) THEN <<>>
    ELSE LET freq_inst == freq_instances[k]
             start_time == FromChars(FreqStartTime(Chars[freq_inst.start_time]))
             Day(wd) == LET lowered == FromChars(Lower(Chars[wd]))
                        IN  IF lowered \in DOMAIN WEEKDAY_MAP THEN WEEKDAY_MAP[lowered] ELSE ""
             days == IF freq_inst.weekday_isa = "list"
                     THEN [n \in DOMAIN freq_inst.weekday |-> Day(freq_inst.weekday[n])]
                     ELSE IF freq_inst.weekday_isa = "str" /\ Truthy(freq_inst.weekday[1])
                     THEN <<Day(freq_inst.weekday[1])>>
                     ELSE <<>>
             pairs == [n \in DOMAIN days |-> [day |-> days[n], start_time |-> start_time]]
         IN  (IF ~Truthy(start_time) THEN <<>>
              ELSE SelectSeq(pairs, LAMBDA pair : Truthy(pair.day)))
             \o DayTimePairs(freq_instances, k + 1)

\* The body of the try of "for instance in event_instances": the exception it
\* raises, the mics it appends and the ids seen after it.
FmInstanceStep(instance, seen_event_ids) ==
    IF instance.isa # "dict"
    THEN [raises |-> "AttributeError", mics |-> <<>>, seen_event_ids |-> seen_event_ids]
    ELSE IF instance.id \in seen_event_ids
    THEN [raises |-> "none", mics |-> <<>>, seen_event_ids |-> seen_event_ids]
    ELSE LET seen == seen_event_ids \cup {instance.id}
             quiet == [raises |-> "none", mics |-> <<>>, seen_event_ids |-> seen]
         IN  IF instance.types # <<>> /\ ~\E n \in DOMAIN instance.types : instance.types[n] = "comedy"
             THEN quiet
             ELSE IF instance.name = None
             THEN [raises |-> "AttributeError", mics |-> <<>>, seen_event_ids |-> seen]
             ELSE LET mic_name == FromChars(Strip(Chars[instance.name]))
                      venue_name == FromChars(Strip(Chars[instance.venue_name]))
                      street_address ==
                          FromChars(Strip(BeforeFirst(Chars[instance.raw_address], ",")))
                      cost == _parse_cost(instance.cost_option)
                      day_time_pairs ==
                          IF instance.freq_instances # <<>>
                          THEN DayTimePairs(instance.freq_instances, 1)
                          ELSE IF /\ Truthy(instance.start_time)
                                  /\ instance.start_time \in DOMAIN IsoWeekday
                               THEN << [day |-> IsoWeekday[instance.start_time],
                                        start_time |->
                                            FromChars(Strftime24(IsoClock[instance.start_time]))] >>
                               ELSE <<>>
                  IN  IF ~Truthy(mic_name) THEN quiet
                      ELSE [raises |-> "none",
                            mics |-> [n \in DOMAIN day_time_pairs |->
                                        Scraped(Mic(venue_name, mic_name, street_address,
                                                    day_time_pairs[n].day, "firemics"),
                                                day_time_pairs[n].start_time,
                                                FromChars(_format_display_time(
                                                    Chars[day_time_pairs[n].start_time])),
                                                cost)],
                            seen_event_ids |-> seen]

\* Steps 2 and 3 up to the loop: the script tag, its JSON, the queries, the data.
FmLocate ==
    /\ pc = "locate"
    /\ extractor = "firemics"
    /\ LET page == site.page
           scan == QueryScan(page.next_data.queries, 1, <<>>)
       IN  IF NextDataMissing(page)
           THEN /\ GiveUp("Could not find __NEXT_DATA__ script tag.")
                /\ hit' = hit \cup {"structure"}
                /\ UNCHANGED locals
           ELSE IF ~page.decodes
           THEN /\ GiveUp("Failed to parse __NEXT_DATA__ JSON")
                /\ hit' = hit \cup {"decode"}
                /\ UNCHANGED locals
           ELSE IF PathRaises(page.next_data) \in {"KeyError", "TypeError"}
           THEN /\ GiveUp("Could not find dehydrated state in page data.")
                /\ hit' = hit \cup {"structure"}
                /\ UNCHANGED locals
           ELSE IF scan.raises # "none"
           THEN /\ Raise(scan.raises)
                /\ hit' = hit \cup {"unexpected"}
                /\ UNCHANGED <<errors, result>>
           ELSE IF scan.event_instances = <<>>
           THEN /\ GiveUp("No event data found in any query.")
                /\ hit' = hit \cup {"structure"}
                /\ UNCHANGED locals
           ELSE /\ locals' = [locals EXCEPT !.events = scan.event_instances, !.i = 1,
                                            !.seen_event_ids = {}]
                /\ pc' = "instances"
                /\ UNCHANGED <<errors, hit, result>>
    /\ UNCHANGED <<extractor, site, mics, requests>>
    /\ UNCHANGED <<matchVars, timeVars, storeVars, parseVars, planVars>>

\* Step 4: one turn of "for instance in event_instances", or its end.
FmInstance ==
    /\ pc = "instances"
    /\ extractor = "firemics"
    /\ IF locals.i > Len(locals.events)
       THEN /\ pc' = "return"
            /\ UNCHANGED <<errors, mics, locals, hit>>
       ELSE LET step == FmInstanceStep(locals.events[locals.i], locals.seen_event_ids)
            IN  /\ mics' = mics \o step.mics
                /\ locals' = [locals EXCEPT !.i = @ + 1, !.seen_event_ids = step.seen_event_ids]
                /\ errors' = IF step.raises # "none"
                             THEN Append(errors, "Error parsing event") ELSE errors
                /\ hit' = IF step.raises # "none" THEN hit \cup {"unexpected"} ELSE hit
                /\ UNCHANGED pc
    /\ UNCHANGED <<extractor, site, requests, result>>
    /\ UNCHANGED <<matchVars, timeVars, storeVars, parseVars, planVars>>

\* -------------------------------------------------- scrape_comedy_listings

URL_PATTERNS ==
    << "https://www.comedylistings.com/new-york-open-mics-{day}",
       "https://www.comedylistings.com/new-york-open-mics/{day}",
       "https://www.comedylistings.com/open-mics-{day}" >>

DAYS == <<"monday", "tuesday", "wednesday", "thursday", "friday", "saturday", "sunday">>

\* str.capitalize()
Capitalize(text) ==
    IF text = "" THEN ""
    ELSE FromChars(<<UpperChar(Chars[text][1])>> \o Lower(Tail(Chars[text])))

\* What _parse_page makes of a fetched page: listings, none, or an exception.
ParseOutcomes == {"listings", "nothing", "raises"}

\* What the site answers to the GETs of the day pages.
CmResponses ==
    {Raising(exc) : exc \in {"ReadTimeout", "ConnectionError", "TooManyRedirects"}}
        \cup {Answering(200), Answering(404)}

\* The site goes wrong at most MaxFaults times during one call.
MaxFaults == 3

\* "time.sleep(REQUEST_DELAY)" and the next turn of "for day in DAYS"
NextDay(frame) ==
    /\ locals' = [frame EXCEPT !.i = @ + 1, !.pattern = 1, !.raised = "none"]
    /\ pc' = IF frame.i + 1 > Len(DAYS) THEN "return" ELSE "day_fetch"

\* Step 1: one turn of "for pattern in URL_PATTERNS" and, after the last, the
\* check that a pattern worked.
CmGet(response) ==
    /\ pc = "day_fetch"
    /\ extractor = "comedy_listings"
    /\ response # Answering(200) => locals.faults < MaxFaults
    /\ requests' = requests + 1
    /\ LET day_title == Capitalize(DAYS[locals.i])
           faulty == [locals EXCEPT !.faults = @ + 1]
       IN  IF response.raises # "none"
           THEN /\ locals' = [faulty EXCEPT !.raised = response.raises]
                /\ pc' = "except"
                /\ hit' = hit \cup {"transport"}
                /\ UNCHANGED errors
           ELSE IF response.status_code = 200
           THEN /\ pc' = "day_parse"
                /\ UNCHANGED <<errors, locals, hit>>
           ELSE IF locals.pattern < Len(URL_PATTERNS)
           THEN /\ locals' = [faulty EXCEPT !.pattern = @ + 1]
                /\ UNCHANGED <<pc, errors, hit>>
           ELSE /\ errors' = Append(errors, day_title)
                /\ hit' = hit \cup {"transport"}
                /\ NextDay(faulty)
    /\ UNCHANGED <<extractor, site, mics, result>>
    /\ UNCHANGED <<matchVars, timeVars, storeVars, parseVars, planVars>>

\* Steps 2 and 3: parse the page of the day and keep what was found.
CmParse(parsed) ==
    /\ pc = "day_parse"
    /\ extractor = "comedy_listings"
    /\ parsed # "listings" => locals.faults < MaxFaults
    /\ LET day_title == Capitalize(DAYS[locals.i])
           faulty == [locals EXCEPT !.faults = @ + 1]
       IN  CASE parsed = "listings" ->
                  /\ mics' = Append(mics, Scraped(Mic("The Green Room", "Open Mic", "", day_title,
                                                      "comedylistings"),
                                                  "19:00", "7:00 PM", None))
                  /\ NextDay(locals)
                  /\ UNCHANGED <<errors, hit>>
             [] parsed = "nothing" ->
                  /\ errors' = Append(errors, day_title)
                  /\ hit' = hit \cup {"structure"}
                  /\ NextDay(faulty)
                  /\ UNCHANGED mics
             [] OTHER ->
                  /\ locals' = [faulty EXCEPT !.raised = "AttributeError"]
                  /\ pc' = "except"
                  /\ hit' = hit \cup {"unexpected"}
                  /\ UNCHANGED <<errors, mics>>
    /\ UNCHANGED <<extractor, site, requests, result>>
    /\ UNCHANGED <<matchVars, timeVars, storeVars, parseVars, planVars>>

\* ------------------------------------------------------- the call, whole

BsSites == {[response |-> r, page |-> p] : r \in Responses, p \in BsPages}

FmSites == {[response |-> r, page |-> p] : r \in Responses, p \in FmPages}

EvSites == {[response |-> r, page |-> p] : r \in Responses, p \in EvPages}

\* What the site may hold when the extractor is called.
Sites(ex) ==
    CASE ex = "badslava" -> BsSites
      [] ex = "firemics" -> FmSites
      [] ex = "eastville" -> EvSites
      [] OTHER -> {NoSite}

\* The call of scrape_<ex>(): "errors = []", "mics = []".
Call ==
    /\ pc = "idle"
    /\ \E ex \in Extractors : \E s \in Sites(ex) :
         /\ extractor' = ex
         /\ site' = s
         /\ pc' = IF ex \in SingleFetch THEN "fetch" ELSE "day_fetch"
    /\ errors' = <<>>
    /\ mics' = <<>>
    /\ locals' = [NoLocals EXCEPT !.i = 1, !.pattern = 1]
    /\ UNCHANGED <<requests, hit, result>>
    /\ UNCHANGED <<matchVars, timeVars, storeVars, parseVars, planVars>>

\* Step 1 of the single-fetch extractors: the GET and the status check.
Fetch ==
    /\ pc = "fetch"
    /\ extractor \in SingleFetch
    /\ requests' = requests + 1
    /\ hit' = hit \cup (IF \/ site.response.raises # "none"
                           \/ site.response.status_code \notin 200..299
                        THEN {"transport"} ELSE {})
    /\ IF site.response.raises # "none"
       THEN /\ Raise(site.response.raises)
            /\ UNCHANGED <<errors, result>>
       ELSE IF StatusRefused(site.response.status_code)
       THEN /\ GiveUp("Got status code")
            /\ UNCHANGED locals
       ELSE /\ pc' = "locate"
            /\ UNCHANGED <<errors, locals, result>>
    /\ UNCHANGED <<extractor, site, mics>>
    /\ UNCHANGED <<matchVars, timeVars, storeVars, parseVars, planVars>>

\* The except clauses: the first that catches the exception appends its message;
\* an exception none catches leaves the function.
Except ==
    /\ pc = "except"
    /\ IF Catching(locals.raised) = {}
       THEN /\ result' = [returned |-> FALSE, raised |-> locals.raised,
                          mics |-> <<>>, errors |-> <<>>]
            /\ pc' = "done"
            /\ UNCHANGED <<errors, locals>>
       ELSE /\ errors' = Append(errors, ExceptClauses[FirstCatching(locals.raised)].says)
            /\ IF extractor = "comedy_listings"
               THEN NextDay(locals)
               ELSE /\ locals' = [locals EXCEPT !.raised = "none"]
                    /\ pc' = "return"
            /\ UNCHANGED result
    /\ UNCHANGED <<extractor, site, mics, requests, hit>>
    /\ UNCHANGED <<matchVars, timeVars, storeVars, parseVars, planVars>>

\* The return at the end of the function.
Return ==
    /\ pc = "return"
    /\ result' = Returned(mics, errors)
    /\ pc' = "done"
    /\ UNCHANGED <<extractor, site, errors, mics, locals, requests, hit>>
    /\ UNCHANGED <<matchVars, timeVars, storeVars, parseVars, planVars>>

ScrapeInit ==
    /\ NotCalled
    /\ NoTimes
    /\ NoParse
    /\ NoPlan
    /\ open_mics = <<>>
    /\ session = NoSession
    /\ outcome = <<>>
    /\ added_from = NotAdded
    /\ scrape_log = <<>>
    /\ run = NoRun
    /\ my_sets = <<>>
    /\ mic_plans = {}

ScrapeNext ==
    \/ Call
    \/ Fetch
    \/ BsLocate
    \/ BsEntry
    \/ FmLocate
    \/ FmInstance
    \/ EvLocate
    \/ EvBlock
    \/ EvEvent
    \/ \E response \in CmResponses : CmGet(response)
    \/ \E parsed \in ParseOutcomes : CmParse(parsed)
    \/ Except
    \/ Return

SpecScrape == ScrapeInit /\ [][ScrapeNext]_vars

\* ------------------------------------------------ properties of extractors

\* The GET got an answer with status 200.
Fetched == site.response.raises = "none" /\ site.response.status_code = 200

\* The GET timed out, could not connect, or was answered with a non-2xx status.
FetchFailed ==
    \/ site.response.raises \in {"ReadTimeout", "ConnectTimeout", "ConnectionError"}
    \/ site.response.raises = "none" /\ site.response.status_code \notin 200..299

\* C7: when the GET of a single-fetch extractor times out, cannot connect or gets
\* a non-2xx status, the run issues no other request and returns no records and
\* exactly one error.
C7_FetchFailureEndsRun ==
    (extractor \in SingleFetch /\ FetchFailed) =>
        /\ requests <= 1
        /\ pc = "done" =>
             /\ requests = 1
             /\ result.returned
             /\ result.mics = <<>>
             /\ Len(result.errors) = 1

C7_Witness ==
    /\ pc = "done"
    /\ extractor = "eastville"
    /\ site.response.status_code = 500
    /\ \E k \in DOMAIN site.page.json_ld_tags : site.page.json_ld_tags[k].decodes
    /\ Len(result.errors) = 1

\* The page was fetched and does not hold the payload the extractor looks for.
PayloadAbsent ==
    /\ Fetched
    /\ CASE extractor = "badslava" -> ~site.page.has_array
         [] extractor = "firemics" ->
              \/ site.page.tag = "absent"
              \/ /\ site.page.decodes
                 /\ site.page.next_data.depth < Len(QueriesPath)
                 /\ site.page.next_data.stop = "dict"
         [] extractor = "eastville" -> site.page.json_ld_tags = <<>>
         [] OTHER -> FALSE

\* C8: when the page is fetched and the payload is absent, the extractor returns
\* normally, with no records and exactly one error.
C8_PayloadAbsentOneError ==
    PayloadAbsent =>
        /\ result.raised = "none"
        /\ pc \in {"fetch", "locate", "done"}
        /\ pc = "done" =>
             /\ result.returned
             /\ result.mics = <<>>
             /\ Len(result.errors) = 1

C8_Witness ==
    /\ pc = "done"
    /\ PayloadAbsent
    /\ extractor = "firemics"
    /\ site.page.tag = "present"
    /\ result.returned

\* A JSON-LD block whose text does not decode as JSON.
Malformed(tag) == tag.string = None \/ ~tag.decodes

\* What the loop over the events yields from event k on, having acc: it ends at
\* the first event that raises, which costs one more error.
RECURSIVE OwnYield(_, _, _)
OwnYield(evs, k, acc) ==
    IF k > Len(evs) THEN acc
    ELSE LET step == EvEventStep(evs[k])
             next == [mics |-> acc.mics \o step.mics, errors |-> acc.errors \o step.errors]
         IN  IF step.raises # "none"
             THEN [next EXCEPT !.errors = Append(@, "Unexpected error")]
             ELSE OwnYield(evs, k + 1, next)

\* The events of a list of well-formed blocks.
RECURSIVE EventsOf(_)
EventsOf(tags) ==
    IF tags = <<>> THEN <<>> ELSE Extracted(Head(tags).data) \o EventsOf(Tail(tags))

\* What the well-formed blocks of the page yield on their own.
OwnResult ==
    LET well_formed == SelectSeq(site.page.json_ld_tags, LAMBDA tag : ~Malformed(tag))
    IN  OwnYield(EventsOf(well_formed), 1, [mics |-> <<>>, errors |-> <<>>])

\* The page was fetched and holds several blocks, exactly one of them malformed.
OneMalformedBlock ==
    /\ extractor = "eastville"
    /\ Fetched
    /\ Len(site.page.json_ld_tags) >= 2
    /\ Cardinality({k \in DOMAIN site.page.json_ld_tags :
                        Malformed(site.page.json_ld_tags[k])}) = 1

\* C9: with one malformed block among several, scrape_eastville returns the
\* records the well-formed blocks yield on their own, wherever the malformed
\* block stands, and exactly one more error than they do.
C9_MalformedBlockCostsOneError ==
    (OneMalformedBlock /\ pc = "done") =>
        /\ result.mics = OwnResult.mics
        /\ Len(result.errors) = Len(OwnResult.errors) + 1

\* C10: no extractor lets an exception out to its caller, a finished call has
\* returned its dict, and the errors are not empty when the run hit a failure.
C10_NeverRaisesAlwaysReports ==
    /\ result.raised = "none"
    /\ pc = "done" =>
         /\ result.returned
         /\ hit # {} => result.errors # <<>>

C10_Witness ==
    /\ pc = "done"
    /\ extractor = "comedy_listings"
    /\ "unexpected" \in hit
    /\ result.returned
    /\ Len(result.mics) >= 1

\* ------------------------------------------------------ the time conversions

\* A number as a site writes it: padded to two digits or not.
Written(n, padded) == IF padded \/ n >= 10 THEN TwoDigits(n) ELSE <<Digits[n + 1]>>

\* The ways a 12-hour time is written: hour padded or not, a space before the
\* suffix or not, the suffix in lower, upper or mixed case, blanks around.
Styles ==
    { [padded |-> FALSE, space |-> FALSE, am |-> <<"a", "m">>, pm |-> <<"p", "m">>, around |-> FALSE],
      [padded |-> FALSE, space |-> TRUE, am |-> <<"A", "M">>, pm |-> <<"P", "M">>, around |-> FALSE],
      [padded |-> TRUE, space |-> FALSE, am |-> <<"A", "m">>, pm |-> <<"P", "m">>, around |-> FALSE],
      [padded |-> FALSE, space |-> TRUE, am |-> <<"a", "m">>, pm |-> <<"p", "m">>, around |-> TRUE] }

MinutesShown == {0, 5, 30, 59}

\* The characters of a 12-hour time; the minutes may be left out.
TwelveHour(hour, minute, shown, pm, style) ==
    (IF style.around THEN <<" ">> ELSE <<>>)
    \o Written(hour, style.padded)
    \o (IF shown THEN <<":">> \o TwoDigits(minute) ELSE <<>>)
    \o (IF style.space THEN <<" ">> ELSE <<>>)
    \o (IF pm THEN style.pm ELSE style.am)
    \o (IF style.around THEN <<" ", "\n">> ELSE <<>>)

\* A raw time as a site gives it, with what it means.
Timed(source, text, parses, wellformed, minutes) ==
    [raw |-> [source |-> source, text |-> text],
     clock |-> [parses |-> parses, wellformed |-> wellformed, minutes |-> minutes]]

MinutesOfDay(hour, minute, pm) == ((hour % 12) + (IF pm THEN 12 ELSE 0)) * 60 + minute

\* Well-formed 12-hour times of Bad Slava.
WellFormedTimes ==
    { Timed("badslava", TwelveHour(h, m, TRUE, pm, st), TRUE, TRUE, MinutesOfDay(h, m, pm)) :
        h \in 1..12, m \in MinutesShown, pm \in BOOLEAN, st \in Styles }
    \cup
    { Timed("badslava", TwelveHour(h, 0, FALSE, pm, st), TRUE, TRUE, MinutesOfDay(h, 0, pm)) :
        h \in 1..12, pm \in BOOLEAN, st \in Styles }

\* Times of Bad Slava that are not well-formed: one that strptime still reads,
\* the others that it refuses.
OddTimes ==
    { Timed("badslava", <<"7", ":", "5", "p", "m">>, TRUE, FALSE, 19 * 60 + 5) }
    \cup
    { Timed("badslava", text, FALSE, FALSE, 0) :
        text \in { <<>>,
                   <<"t", "b", "d">>,
                   <<"T", "B", "D">>,
                   <<"n", "o", "o", "n">>,
                   <<"1", "3", ":", "0", "0", "p", "m">>,
                   <<"0", ":", "3", "0", "a", "m">>,
                   <<"7", ":", "6", "0", "p", "m">>,
                   <<"7", ".", "3", "0", "p", "m">>,
                   <<"7", ":", "0", "0", " ", "p", ".", "m", ".">>,
                   <<"1", "9", ":", "0", "0">>,
                   <<"7", ":", "0", "0", "p", "m", "!">> } }

\* The start_time strings of the FireMics feed, "HH:MM:SS", and others.
FeedTimes ==
    { Timed("firemics", TwoDigits(h) \o <<":">> \o TwoDigits(m) \o <<":", "0", "0">>,
            TRUE, TRUE, h * 60 + m) : h \in {0, 9, 12, 13, 21, 23}, m \in {0, 30} }
    \cup
    { Timed("firemics", text, FALSE, FALSE, 0) :
        text \in { <<>>, <<"7", "p", "m">>, <<"9", ":", "3", "0", ":", "0", "0">> } }

\* The times a conversion is compared with.
ReferenceTimes ==
    { t \in WellFormedTimes :
        \E h \in 1..12, m \in {0, 30}, pm \in BOOLEAN :
            t.raw.text = TwelveHour(h, m, TRUE, pm,
                                    [padded |-> FALSE, space |-> TRUE, am |-> <<"A", "M">>,
                                     pm |-> <<"P", "M">>, around |-> FALSE]) }
    \cup { t \in FeedTimes : t.clock.parses /\ t.clock.minutes % 60 = 0 }

\* The start_time an extractor makes of a raw time.
StartTimeOf(raw) ==
    IF raw.source = "firemics" THEN FreqStartTime(raw.text) ELSE _convert_to_24hr(raw.text)

TimeInit ==
    /\ \E first \in WellFormedTimes \cup OddTimes \cup FeedTimes, second \in ReferenceTimes :
          /\ time_strs = <<first.raw, second.raw>>
          /\ clocks = <<first.clock, second.clock>>
    /\ military_times = <<>>
    /\ display_times = <<>>
    /\ reconverted = <<>>
    /\ tpc = "raw"
    /\ NotCalled
    /\ open_mics = <<>>
    /\ session = NoSession
    /\ outcome = <<>>
    /\ added_from = NotAdded
    /\ scrape_log = <<>>
    /\ run = NoRun
    /\ my_sets = <<>>
    /\ mic_plans = {}
    /\ NoParse
    /\ NoPlan

\* Each raw time is made a start_time.
Convert ==
    /\ tpc = "raw"
    /\ military_times' = [i \in DOMAIN time_strs |-> StartTimeOf(time_strs[i])]
    /\ tpc' = "converted"
    /\ UNCHANGED <<time_strs, clocks, display_times, reconverted>>
    /\ UNCHANGED <<matchVars, scrapeVars, storeVars, parseVars, planVars>>

\* Each start_time is made a display_time.
Display ==
    /\ tpc = "converted"
    /\ display_times' = [i \in DOMAIN military_times |-> _format_display_time(military_times[i])]
    /\ tpc' = "displayed"
    /\ UNCHANGED <<time_strs, clocks, military_times, reconverted>>
    /\ UNCHANGED <<matchVars, scrapeVars, storeVars, parseVars, planVars>>

\* Each display_time is converted again.
Reconvert ==
    /\ tpc = "displayed"
    /\ reconverted' = [i \in DOMAIN display_times |-> _convert_to_24hr(display_times[i])]
    /\ tpc' = "reconverted"
    /\ UNCHANGED <<time_strs, clocks, military_times, display_times>>
    /\ UNCHANGED <<matchVars, scrapeVars, storeVars, parseVars, planVars>>

TimeNext == Convert \/ Display \/ Reconvert

SpecTime == TimeInit /\ [][TimeNext]_vars

\* ------------------------------------------- the records an extractor returns

\* The call has returned its dict.
Done == pc = "done" /\ result.returned

\* The record has its two mandatory schedule fields.
Scheduled(mic) == mic.day_of_week \in valid_days /\ Truthy(mic.start_time)

\* C11: every record returned by scrape_badslava, scrape_firemics or
\* scrape_eastville names one of the seven weekdays in day_of_week and has a
\* non-empty start_time.
C11_MandatoryScheduleFields ==
    (Done /\ extractor \in SingleFetch) =>
        \A i \in DOMAIN result.mics : Scheduled(result.mics[i])

\* ---------------------------------------------------- the times, converted

\* The conversions have been made.
Converted == tpc # "raw"

\* A zero-padded 24-hour time "HH:MM".
IsHHMM(cs) ==
    /\ Len(cs) = 5
    /\ cs[3] = ":"
    /\ \A k \in {1, 2, 4, 5} : IsDigit(cs[k])
    /\ 10 * DigitValue(cs[1]) + DigitValue(cs[2]) \in 0..23
    /\ 10 * DigitValue(cs[4]) + DigitValue(cs[5]) \in 0..59

\* The place of a character in the order of the code points: the digits, then ":".
Rank(c) == IF IsDigit(c) THEN DigitValue(c) ELSE 10

\* a < b as Python compares strings
LexLess(a, b) ==
    \/ Len(a) < Len(b) /\ SubSeq(b, 1, Len(a)) = a
    \/ \E k \in (DOMAIN a) \cap (DOMAIN b) :
          /\ SubSeq(a, 1, k - 1) = SubSeq(b, 1, k - 1)
          /\ Rank(a[k]) < Rank(b[k])

\* C12: the start_time made of a time that parses is a zero-padded "HH:MM" with
\* HH in 00..23 and MM in 00..59, and two such start_times compare as strings
\* the way their times of day compare.
C12_StartTimesSortAsTimes ==
    Converted =>
        /\ \A i \in DOMAIN military_times : clocks[i].parses => IsHHMM(military_times[i])
        /\ \A i, j \in DOMAIN military_times :
              (clocks[i].parses /\ clocks[j].parses) =>
                  /\ LexLess(military_times[i], military_times[j])
                         <=> clocks[i].minutes < clocks[j].minutes
                  /\ military_times[i] = military_times[j]
                         <=> clocks[i].minutes = clocks[j].minutes

\* 9:00 PM and 1:00 PM have been converted, and "13:00" sorts before "21:00".
C12_Witness ==
    /\ tpc = "converted"
    /\ time_strs[1].text = <<"9", ":", "0", "0", "p", "m">>
    /\ time_strs[2].text = <<"1", ":", "0", "0", " ", "P", "M">>
    /\ military_times = << <<"2", "1", ":", "0", "0">>, <<"1", "3", ":", "0", "0">> >>
    /\ LexLess(military_times[2], military_times[1])

\* C13: _convert_to_24hr returns a time string it cannot parse as it was given,
\* character for character.
C13_UnparsedPassesThrough ==
    Converted =>
        \A i \in DOMAIN military_times :
            (time_strs[i].source = "badslava" /\ ~clocks[i].parses) =>
                military_times[i] = time_strs[i].text

\* C14: for a well-formed 12-hour time, converting to 24-hour, back to 12-hour
\* and to 24-hour again gives the "HH:MM" of the first conversion.
C14_RoundTripStable ==
    tpc = "reconverted" =>
        \A i \in DOMAIN time_strs :
            (time_strs[i].source = "badslava" /\ clocks[i].wellformed) =>
                /\ IsHHMM(military_times[i])
                /\ reconverted[i] = military_times[i]

\* 12:30 am went to "00:30", to "12:30 AM" and to "00:30" again; the time it
\* is compared with is 12:00 PM.
C14_Witness ==
    /\ tpc = "reconverted"
    /\ time_strs[1].text = <<"1", "2", ":", "3", "0", "a", "m">>
    /\ military_times[1] = <<"0", "0", ":", "3", "0">>
    /\ display_times[1] = <<"1", "2", ":", "3", "0", " ", "A", "M">>
    /\ reconverted[1] = <<"0", "0", ":", "3", "0">>
    /\ clocks[2].minutes = 12 * 60
    /\ display_times[2] = <<"1", "2", ":", "0", "0", " ", "P", "M">>

\* -------------------------------------------- the fields of a Bad Slava entry

\* What is to be read off entries of the array, by position: nothing of an
\* entry of fewer than 6 fields; of an entry with a weekday in field 0 and a
\* city of New York in field 4, the weekday, the venue of field 2 without its
\* tags, the 24-hour time of field 5 (None where field 5 holds no 12-hour
\* time) and the cost of field 6 (None where there is no field 6).
Positional ==
    "Tuesday<br><br><b>The Green Room</b><br>487 Atlantic Ave<br>Brooklyn, NY<br>7:00pm" :>
        << [day_of_week |-> "Tuesday", venue |-> "The Green Room",
            start_time |-> "19:00", cost |-> None] >>
    @@ "Tuesday<br>Open Mic" :> <<>>
    @@ "Monday<br>Test Mic<br>\n<b>Test Venue</b><br>12 Main St<br>New York, NY<br>7:00 PM<br> Free" :>
        << [day_of_week |-> "Monday", venue |-> "Test Venue",
            start_time |-> "19:00", cost |-> "Free"] >>
    @@ "Tuesday<br>Open Mic<br>The Golden Pen<br>12 Main St<br>Brooklyn, NY<br>" :>
        << [day_of_week |-> "Tuesday", venue |-> "The Golden Pen",
            start_time |-> None, cost |-> None] >>
    @@ "Wednesday<br>Open Mic<br>The Golden Pen<br>12 Main St<br>Brooklyn, NY<br>tbd<br>$5" :>
        << [day_of_week |-> "Wednesday", venue |-> "The Golden Pen",
            start_time |-> None, cost |-> "$5"] >>

\* The array was found, and each of its entries is one of those above.
PositionalPage ==
    /\ extractor = "badslava"
    /\ Fetched
    /\ site.page.has_array
    /\ \A k \in DOMAIN site.page.entries : site.page.entries[k] \in DOMAIN Positional

\* What is to be read off the entries from k on.
RECURSIVE ReadOff(_, _)
ReadOff(entries, k) ==
    IF k > Len(entries) THEN <<>> ELSE Positional[entries[k]] \o ReadOff(entries, k + 1)

\* The record holds what was to be read.
Reads(mic, read) ==
    /\ mic.day_of_week = read.day_of_week
    /\ mic.venue = read.venue
    /\ mic.cost = read.cost
    /\ read.start_time # None => mic.start_time = read.start_time

FeedRead == Done /\ extractor = "firemics" /\ locals.events # <<>>

\* The instances of the feed.
FeedInstances == locals.events

\* What the instance yields when it is the only one of the feed.
Alone(instance) == FmInstanceStep(instance, {})

\* An earlier instance of the feed carries the same event id.
SeenBefore(k) ==
    /\ FeedInstances[k].isa = "dict"
    /\ FeedInstances[k].id # None
    /\ \E j \in 1..(k - 1) : FeedInstances[j].isa = "dict" /\ FeedInstances[j].id = FeedInstances[k].id

\* The records of the instances from k on, each event id counted once.
RECURSIVE OncePerId(_)
OncePerId(k) ==
    IF k > Len(FeedInstances) THEN <<>>
    ELSE (IF SeenBefore(k) THEN <<>> ELSE Alone(FeedInstances[k]).mics) \o OncePerId(k + 1)

\* C16: of the instances that carry the same event id only the first adds
\* records, and instances whose events carry no id are not taken for one
\* another: each adds the records it yields alone.
C16_OncePerEventId == FeedRead => result.mics = OncePerId(1)

\* The weekday a name of the feed stands for, "" when it is none.
DayNamed(wd) ==
    LET lowered == FromChars(Lower(Chars[wd]))
    IN  IF lowered \in DOMAIN WEEKDAY_MAP THEN WEEKDAY_MAP[lowered] ELSE ""

\* The weekday names of the frequency instances from k on, with repetitions.
RECURSIVE Named(_, _)
Named(freq_instances, k) ==
    IF k > Len(freq_instances) THEN <<>>
    ELSE SelectSeq([n \in DOMAIN freq_instances[k].weekday |->
                       DayNamed(freq_instances[k].weekday[n])], Truthy)
         \o Named(freq_instances, k + 1)

\* The first instance of the feed is a comedy event with a name whose frequency
\* instances all have a start time and name weekdays, none of them twice.
Recurs ==
    LET first == FeedInstances[1]
        named == Named(first.freq_instances, 1)
    IN  /\ first.isa = "dict"
        /\ first.types = <<>> \/ \E n \in DOMAIN first.types : first.types[n] = "comedy"
        /\ Truthy(first.name)
        /\ first.freq_instances # <<>>
        /\ \A n \in DOMAIN first.freq_instances : Truthy(first.freq_instances[n].start_time)
        /\ named # <<>>
        /\ \A a, b \in DOMAIN named : a # b => named[a] # named[b]

\* The two records differ in nothing but the day and the times.
SameEvent(a, b) ==
    /\ a.name = b.name
    /\ a.venue = b.venue
    /\ a.address = b.address
    /\ a.cost = b.cost
    /\ a.source = b.source

RECURSIVE Loop(_, _, _)
Loop(instances, k, seen) ==
    IF k > Len(instances) THEN [mics |-> <<>>, faulty |-> {}]
    ELSE LET step == FmInstanceStep(instances[k], seen)
             rest == Loop(instances, k + 1, step.seen_event_ids)
         IN  [mics |-> step.mics \o rest.mics,
              faulty |-> (IF step.raises # "none" THEN {k} ELSE {}) \cup rest.faulty]

\* The positions of the instances of the feed whose processing raises.
Faulty == Loop(FeedInstances, 1, {}).faulty

\* The feed without those instances.
FaultFree == Pick(FeedInstances, (DOMAIN FeedInstances) \ Faulty, 1)

\* C18: an instance whose processing raises costs one string in errors and
\* nothing else: the records returned are those of the feed without it.
C18_FaultyInstanceIsolated ==
    FeedRead =>
        /\ Len(result.errors) = Cardinality(Faulty)
        /\ result.mics = Loop(FaultFree, 1, {}).mics

\* ---------------------------------------------------------- the audit log

\* C20: when the write of the scrape_log row fails after the extraction has
\* returned, no exception leaves the handler and the result of the extraction
\* is in the session, to be shown.
C20_LogFailureNotPropagated ==
    (run.scraped /\ run.log_failed) =>
        /\ run.raised = "none"
        /\ session.section # "none"

\* ----------------------------------------------------------- record store

\* The rows open_mics is let hold, and my_sets, while the store is operated on.
MaxMics == 2

MaxSets == 1

\* The ids a caller passes: those of the rows there may be, and one of no row.
MicIds == 1..(MaxMics + 1)

SetIds == 1..(MaxSets + 1)

PlanDates == {"2026-01-13"}

\* A row of open_mics has this id.
Exists(table, mic_id) == \E i \in DOMAIN table : table[i].id = mic_id

\* update_mic(mic_id, data_dict): the table after "UPDATE open_mics SET ... WHERE
\* id = mic_id"; the UPDATE is refused when it puts NULL in a NOT NULL column.
update_mic(table, mic_id, data_dict) ==
    IF \E c \in DOMAIN data_dict : c \in NotNullColumns /\ data_dict[c] = None THEN table
    ELSE [i \in DOMAIN table |->
            IF table[i].id = mic_id
            THEN [c \in DOMAIN table[i] |->
                    IF c \in DOMAIN data_dict THEN data_dict[c] ELSE table[i][c]]
            ELSE table[i]]

\* Mutant of set_mic_plan: a plain INSERT.
SetMicPlanInsertOnly(plans, table, open_mic_id, plan_date, status) ==
    IF ~Exists(table, open_mic_id) THEN plans
    ELSE plans \cup {[open_mic_id |-> open_mic_id, plan_date |-> plan_date, status |-> status]}

\* set_mic_plan: INSERT ... ON CONFLICT(open_mic_id, plan_date) DO UPDATE; the
\* foreign key refuses a plan for a mic that is not there.
set_mic_plan(plans, table, open_mic_id, plan_date, status) ==
    IF ~Exists(table, open_mic_id) THEN plans
    ELSE {p \in plans : ~(p.open_mic_id = open_mic_id /\ p.plan_date = plan_date)}
         \cup {[open_mic_id |-> open_mic_id, plan_date |-> plan_date, status |-> status]}

\* remove_mic_plan: "DELETE FROM mic_plans WHERE open_mic_id = %s AND plan_date = %s"
remove_mic_plan(plans, open_mic_id, plan_date) ==
    {p \in plans : ~(p.open_mic_id = open_mic_id /\ p.plan_date = plan_date)}

\* Mutant of add_set: nothing is inserted.
AddSetNothing(sets, table, data_dict) == sets

\* add_set(data_dict): the table after the INSERT, which is refused without a
\* date_performed (NOT NULL) and for an open_mic_id of no row (foreign key).
add_set(sets, table, data_dict) ==
    IF data_dict.date_performed = None \/ ~Exists(table, data_dict.open_mic_id) THEN sets
    ELSE Append(sets, [id |-> Len(sets) + 1, open_mic_id |-> data_dict.open_mic_id,
                       date_performed |-> data_dict.date_performed])

\* update_set(set_id, data_dict): the table after "UPDATE my_sets SET ... WHERE
\* id = set_id", refused like the INSERT.
update_set(sets, table, set_id, data_dict) ==
    IF data_dict.date_performed = None \/ ~Exists(table, data_dict.open_mic_id) THEN sets
    ELSE [k \in DOMAIN sets |->
            IF sets[k].id = set_id
            THEN [sets[k] EXCEPT !.open_mic_id = data_dict.open_mic_id,
                                 !.date_performed = data_dict.date_performed]
            ELSE sets[k]]

\* What the callers pass to update_mic: the changed columns, never the id.
UpdateDicts == {[name |-> None], [name |-> "Late Mic"], [is_active |-> TRUE]}

\* What the callers pass to add_set and update_set.
SetDicts ==
    {[open_mic_id |-> i, date_performed |-> d] : i \in MicIds, d \in PlanDates \cup {None}}

\* What the callers pass to add_mic: here a mic with an id and a source of its
\* own, and a mic that lacks what the table requires.
AddDicts ==
    {[id |-> 7, source |-> "badslava", name |-> "Open Mic", venue |-> "The Golden Pen",
      address |-> "12 Main St", day_of_week |-> "Tuesday", start_time |-> "19:00"],
     [name |-> "Open Mic"]}

\* The tables at the start: active rows.
StoreTables == {Renumber(l) : l \in Selections(SubSeq(StorePool, 1, 1), MaxMics)}

StoreInit ==
    /\ open_mics \in StoreTables
    /\ my_sets = <<>>
    /\ mic_plans = {}
    /\ session = NoSession
    /\ outcome = <<>>
    /\ added_from = NotAdded
    /\ scrape_log = <<>>
    /\ run = NoRun
    /\ NotCalled
    /\ NoTimes
    /\ NoParse
    /\ NoPlan

StoreFrame ==
    UNCHANGED <<session, outcome, added_from, scrape_log, run, scrapeVars, timeVars, parseVars, planVars>>

AddMic ==
    /\ Len(open_mics) < MaxMics
    /\ \E data_dict \in AddDicts :
          open_mics' = add_mic(open_mics, data_dict)
    /\ UNCHANGED storeVars
    /\ StoreFrame

UpdateMic ==
    /\ \E mic_id \in MicIds, data_dict \in UpdateDicts :
          open_mics' = update_mic(open_mics, mic_id, data_dict)
    /\ UNCHANGED storeVars
    /\ StoreFrame

DeactivateMic ==
    /\ \E mic_id \in MicIds : open_mics' = deactivate_mic(open_mics, mic_id)
    /\ UNCHANGED storeVars
    /\ StoreFrame

\* delete_mic_hard(mic_id): deactivate_mic, then "DELETE FROM mic_plans WHERE
\* open_mic_id = %s".
DeleteMicHard ==
    /\ \E mic_id \in MicIds :
          /\ open_mics' = deactivate_mic(open_mics, mic_id)
          /\ mic_plans' = {p \in mic_plans : p.open_mic_id # mic_id}
    /\ UNCHANGED my_sets
    /\ StoreFrame

SetMicPlan ==
    /\ \E open_mic_id \in MicIds, plan_date \in PlanDates, status \in {"going", "cancelled"} :
          mic_plans' = set_mic_plan(mic_plans, open_mics, open_mic_id, plan_date, status)
    /\ UNCHANGED <<open_mics, my_sets>>
    /\ StoreFrame

RemoveMicPlan ==
    /\ \E open_mic_id \in MicIds, plan_date \in PlanDates :
          mic_plans' = remove_mic_plan(mic_plans, open_mic_id, plan_date)
    /\ UNCHANGED <<open_mics, my_sets>>
    /\ StoreFrame

AddSet ==
    /\ Len(my_sets) < MaxSets
    /\ \E data_dict \in SetDicts : my_sets' = add_set(my_sets, open_mics, data_dict)
    /\ UNCHANGED <<open_mics, mic_plans>>
    /\ StoreFrame

UpdateSet ==
    /\ \E set_id \in SetIds, data_dict \in SetDicts :
          my_sets' = update_set(my_sets, open_mics, set_id, data_dict)
    /\ UNCHANGED <<open_mics, mic_plans>>
    /\ StoreFrame

StoreNext ==
    \/ AddMic
    \/ UpdateMic
    \/ DeactivateMic
    \/ DeleteMicHard
    \/ SetMicPlan
    \/ RemoveMicPlan
    \/ AddSet
    \/ UpdateSet

SpecStore == StoreInit /\ [][StoreNext]_vars

\* The rows of my_sets whose open_mic_id is the id of a row of this table.
Resolvable(sets, table) == {k \in DOMAIN sets : Exists(table, sets[k].open_mic_id)}

\* A row of open_mics that this step makes inactive.
Deactivated(i) == open_mics[i].is_active /\ ~open_mics'[i].is_active

\* C19: no operation of the store removes a row of open_mics: each row keeps
\* its place and its id over every step, so each my_sets row that referenced
\* a mic before the step references a row after it; and a step that makes a
\* mic inactive changes nothing of that row but is_active, and nothing of
\* my_sets.
C19_SoftDeleteOnly ==
    [][ /\ Len(open_mics') >= Len(open_mics)
        /\ \A i \in DOMAIN open_mics : open_mics'[i].id = open_mics[i].id
        /\ Len(my_sets') >= Len(my_sets)
        /\ \A k \in Resolvable(my_sets, open_mics) : k \in Resolvable(my_sets', open_mics')
        /\ \A i \in DOMAIN open_mics :
              Deactivated(i) =>
                 /\ open_mics'[i] = [open_mics[i] EXCEPT !.is_active = FALSE]
                 /\ my_sets' = my_sets ]_vars

\* A logged set references a mic that has been made inactive.
C19_Witness ==
    \E k \in DOMAIN my_sets, i \in DOMAIN open_mics :
        /\ my_sets[k].open_mic_id = open_mics[i].id
        /\ ~open_mics[i].is_active

\* --------------------------------------------------------------- _parse_page

\* The dashes of lstrip("—–-:") that are not ASCII, as characters.
EmDash == "U+2014"

EnDash == "U+2013"

\* cs[a..b] is there and is digits.
AllDigits(cs, a, b) == b <= Len(cs) /\ \A k \in a..b : IsDigit(cs[k])

\* Where "\s*" stops when it starts after position p.
SkipSpace(cs, p) ==
    CHOOSE q \in p..Len(cs) :
        /\ \A k \in (p + 1)..q : cs[k] \in Whitespace
        /\ (q = Len(cs) \/ cs[q + 1] \notin Whitespace)

\* "(?:AM|PM|am|pm)" with re.IGNORECASE, after position p.
Meridiem(cs, p) ==
    /\ p + 2 <= Len(cs)
    /\ Upper(SubSeq(cs, p + 1, p + 2)) \in {<<"A", "M">>, <<"P", "M">>}

\* One way through time_pattern: d digits, then ":" and two digits or not.
\* Where the match ends, 0 when this way does not match.
TimeTry(cs, d, minutes) ==
    IF ~AllDigits(cs, 1, d) THEN 0
    ELSE IF minutes /\ ~(d + 1 <= Len(cs) /\ cs[d + 1] = ":" /\ AllDigits(cs, d + 2, d + 3))
    THEN 0
    ELSE LET q == SkipSpace(cs, IF minutes THEN d + 3 ELSE d)
         IN  IF Meridiem(cs, q) THEN q + 2 ELSE 0

\* Mutant of time_pattern: the hour has two digits.
TimePatternTwoDigitHour(cs) ==
    LET ways == << TimeTry(cs, 2, TRUE), TimeTry(cs, 2, FALSE) >>
    IN  IF ways[1] # 0 THEN ways[1] ELSE ways[2]

\* time_pattern.match(line): r"^(\d{1,2}(?::\d{2})?\s*(?:AM|PM|am|pm))".  The
\* end of the match, 0 without one; the ways are tried in the regex's order.
time_pattern(cs) ==
    LET ways == << TimeTry(cs, 2, TRUE), TimeTry(cs, 2, FALSE),
                   TimeTry(cs, 1, TRUE), TimeTry(cs, 1, FALSE) >>
    IN  IF \A w \in DOMAIN ways : ways[w] = 0 THEN 0
        ELSE ways[CHOOSE w \in DOMAIN ways : ways[w] # 0 /\ \A v \in 1..(w - 1) : ways[v] = 0]

\* str.lstrip(chars)
LStrip(cs, chars) ==
    IF \A k \in DOMAIN cs : cs[k] \in chars THEN <<>>
    ELSE SubSeq(cs, CHOOSE k \in DOMAIN cs :
                        cs[k] \notin chars /\ \A m \in 1..(k - 1) : cs[m] \in chars,
                Len(cs))

\* Where a run of characters of S, at least "least" long, may end when it
\* starts at a position of P (a position is the number of characters before it).
Runs(cs, P, S, least) ==
    {q \in 0..Len(cs) : \E p \in P : q >= p + least /\ \A k \in (p + 1)..q : cs[k] \in S}

\* Where one of the words, in any case, may end when it starts at a position of P.
Words(cs, P, words) ==
    {q \in 0..Len(cs) : \E p \in P, w \in words :
        q = p + Len(Chars[w]) /\ Lower(SubSeq(cs, p + 1, q)) = Chars[w]}

DigitChars == {Digits[k] : k \in DOMAIN Digits}

WordChars ==
    DigitChars \cup {"_"} \cup {UpperLetters[k] : k \in DOMAIN UpperLetters}
           \cup {LowerLetters[k] : k \in DOMAIN LowerLetters}

\* _looks_like_address(text): re.search of
\* r"\d+\s+(W|E|N|S|West|East|North|South)?\s*\d*\s*\w+\s+(St|Ave|...|Place)"
_looks_like_address(cs) ==
    LET p1 == Runs(cs, 0..Len(cs), DigitChars, 1)
        p2 == Runs(cs, p1, Whitespace, 1)
        p3 == p2 \cup Words(cs, p2, {"w", "e", "n", "s", "west", "east", "north", "south"})
        p4 == Runs(cs, p3, Whitespace, 0)
        p5 == Runs(cs, p4, DigitChars, 0)
        p6 == Runs(cs, p5, Whitespace, 0)
        p7 == Runs(cs, p6, WordChars, 1)
        p8 == Runs(cs, p7, Whitespace, 1)
    IN  Words(cs, p8, {"st", "ave", "blvd", "rd", "way", "pl", "dr", "ln", "ct", "broadway",
                       "street", "avenue", "place"}) # {}

\* any(word in text for word in words)
AnyIn(cs, words) == \E w \in words : Contains(cs, Chars[w])

\* _detect_signup_method(text)
_detect_signup_method(cs) ==
    LET text_lower == Lower(cs)
    IN  IF AnyIn(text_lower, {"online", "website", "link", "book"}) THEN "online"
        ELSE IF AnyIn(text_lower, {"email", "e-mail"}) THEN "email"
        ELSE IF AnyIn(text_lower, {"dm", "instagram", "ig"}) THEN "instagram_dm"
        ELSE "in_person"

\* The dict "neighborhoods", in its order.
neighborhoods ==
    << <<"brooklyn", "Brooklyn">>, <<"gowanus", "Gowanus">>,
       <<"williamsburg", "Williamsburg">>, <<"bushwick", "Bushwick">>,
       <<"south slope", "South Slope">>, <<"park slope", "Park Slope">>,
       <<"atlantic ave", "Brooklyn">>, <<"harlem", "Harlem">>, <<"les", "LES">>,
       <<"rivington", "LES">>, <<"east village", "East Village">>,
       <<"st marks", "East Village">>, <<"west village", "West Village">>,
       <<"soho", "SoHo">>, <<"vandam", "SoHo">>, <<"uws", "UWS">>, <<"upper west", "UWS">>,
       <<"ues", "UES">>, <<"upper east", "UES">>, <<"gramercy", "Gramercy">>,
       <<"midtown", "Midtown">>, <<"chelsea", "Chelsea">>,
       <<"hells kitchen", "Hell's Kitchen">>, <<"hell's kitchen", "Hell's Kitchen">>,
       <<"astoria", "Astoria">>, <<"queens", "Queens">>, <<"bronx", "Bronx">>,
       <<"bruckner", "Bronx">> >>

\* _guess_neighborhood(address)
_guess_neighborhood(address) ==
    IF ~Truthy(address) THEN None
    ELSE LET address_lower == Lower(Chars[address])
             found == {k \in DOMAIN neighborhoods :
                          Contains(address_lower, Chars[neighborhoods[k][1]])}
         IN  IF found = {} THEN None
             ELSE neighborhoods[CHOOSE k \in found : \A m \in found : k <= m][2]

\* _guess_borough(neighborhood)
_guess_borough(neighborhood) ==
    IF ~Truthy(neighborhood) THEN None
    ELSE IF neighborhood \in {"Brooklyn", "Gowanus", "Williamsburg", "Bushwick", "South Slope",
                              "Park Slope"} THEN "Brooklyn"
    ELSE IF neighborhood \in {"Bronx"} THEN "Bronx"
    ELSE IF neighborhood \in {"Queens", "Astoria"} THEN "Queens"
    ELSE "Manhattan"

\* The candidate a time token opens.  A key the dict does not hold yet
\* (signup_notes, neighborhood, borough) is None here: the code reads them
\* with get() only.
Candidate(day_of_week, raw_time, military_time, remainder) ==
    [day_of_week |-> day_of_week, display_time |-> raw_time, start_time |-> military_time,
     name |-> IF remainder # "" THEN remainder ELSE None, venue |-> None, address |-> None,
     cost |-> None, signup_method |-> None, signup_notes |-> None,
     neighborhood |-> None, borough |-> None, source |-> "comedy_listings"]

\* Mutant of Detail: a later unclassified line becomes the name again.
DetailOverwritesName(mic, line) ==
    LET line_lower == Lower(Chars[line])
    IN  IF _looks_like_address(Chars[line]) THEN [mic EXCEPT !.address = line]
        ELSE IF AnyIn(line_lower, {"$", "free", "drink min", "item min", "no cover"})
        THEN [mic EXCEPT !.cost = line]
        ELSE [mic EXCEPT !.name = line]

\* The "elif current_mic:" branch: the candidate after a line that is no time token.
Detail(mic, line) ==
    LET line_lower == Lower(Chars[line])
    IN  IF _looks_like_address(Chars[line]) THEN [mic EXCEPT !.address = line]
        ELSE IF AnyIn(line_lower, {"$", "free", "drink min", "item min", "no cover"})
        THEN [mic EXCEPT !.cost = line]
        ELSE IF AnyIn(line_lower, {"sign up", "signup", "first come", "bucket", "list"})
        THEN IF ~Truthy(mic.signup_method)
             THEN [mic EXCEPT !.signup_method = _detect_signup_method(Chars[line]),
                              !.signup_notes = line]
             ELSE mic
        ELSE IF ~Truthy(mic.name) THEN [mic EXCEPT !.name = line]
        ELSE IF ~Truthy(mic.venue) THEN [mic EXCEPT !.venue = line]
        ELSE mic

\* Mutant of Saved: the candidate is kept whether it has a name or not.
SavedNameless(saved, mic) == Append(saved, mic)

\* "if current_mic and current_mic.get("name"): mics.append(current_mic)"
Saved(saved, mic) ==
    IF mic # NoCurrentMic /\ Truthy(mic.name) THEN Append(saved, mic) ELSE saved

\* The clean-up loop over the saved mics.
CleanUp(mic) ==
    LET neighborhood == _guess_neighborhood(mic.address)
    IN  [mic EXCEPT !.venue = IF Truthy(mic.venue) THEN mic.venue ELSE mic.name,
                    !.neighborhood = neighborhood,
                    !.borough = _guess_borough(neighborhood)]

\* The lines of the page text, as split("\n") gives them: with blank ones and
\* with space around them.
RawLines ==
    { "7:30PM", "9pm - Late Mic", "Free, 487 Atlantic Ave", "$5, bucket list",
      "Sign up online", "Email list", "The Green Room", " Open Mic ", "" }

\* A page has at most MaxLines lines.
MaxLines == 3

\* "[line.strip() for line in full_text.split("\n") if line.strip()]"
StrippedLines(raw) ==
    LET stripped == [k \in DOMAIN raw |-> FromChars(Strip(Chars[raw[k]]))]
    IN  SelectSeq(stripped, LAMBDA line : line # "")

Pages == {StrippedLines(raw) : raw \in SeqsUpTo(RawLines, MaxLines)}

ParseFrame == UNCHANGED <<matchVars, scrapeVars, timeVars, storeVars, planVars>>

ParseInit ==
    /\ lines \in Pages
    /\ line_no = 0
    /\ current_mic = NoCurrentMic
    /\ page_mics = <<>>
    /\ returned = NotParsed
    /\ open_mics = <<>>
    /\ session = NoSession
    /\ outcome = <<>>
    /\ added_from = NotAdded
    /\ scrape_log = <<>>
    /\ run = NoRun
    /\ my_sets = <<>>
    /\ mic_plans = {}
    /\ NotCalled
    /\ NoTimes
    /\ NoPlan

\* One turn of "for line in lines" on a line that time_pattern matches.
TimeLine ==
    /\ returned = NotParsed
    /\ line_no < Len(lines)
    /\ LET line == Chars[lines[line_no + 1]]
           time_match == time_pattern(line)
           raw_time == Upper(Strip(SubSeq(line, 1, time_match)))
           remainder == Strip(LStrip(Strip(SubSeq(line, time_match + 1, Len(line))),
                                     {EmDash, EnDash, "-", ":"}))
       IN  /\ time_match # 0
           /\ page_mics' = Saved(page_mics, current_mic)
           /\ current_mic' = Candidate("Tuesday", FromChars(raw_time),
                                       FromChars(_convert_to_24hr(raw_time)),
                                       FromChars(remainder))
    /\ line_no' = line_no + 1
    /\ UNCHANGED <<lines, returned>>
    /\ ParseFrame

\* One turn on any other line: a detail of the open candidate, or nothing.
DetailLine ==
    /\ returned = NotParsed
    /\ line_no < Len(lines)
    /\ time_pattern(Chars[lines[line_no + 1]]) = 0
    /\ current_mic' = IF current_mic # NoCurrentMic
                      THEN Detail(current_mic, lines[line_no + 1])
                      ELSE current_mic
    /\ line_no' = line_no + 1
    /\ UNCHANGED <<lines, page_mics, returned>>
    /\ ParseFrame

\* After the loop: the last candidate, the clean-up and the return.
ParseReturn ==
    /\ returned = NotParsed
    /\ line_no = Len(lines)
    /\ LET all == Saved(page_mics, current_mic)
       IN  returned' = [k \in DOMAIN all |-> CleanUp(all[k])]
    /\ UNCHANGED <<lines, line_no, current_mic, page_mics>>
    /\ ParseFrame

ParseNext ==
    \/ TimeLine
    \/ DetailLine
    \/ ParseReturn

SpecParse == ParseInit /\ [][ParseNext]_vars

\* ------------------------------------------------------ claims on _parse_page

\* The lines of the pool that begin with a time token, and the token as shown.
TokenShown == "7:30PM" :> "7:30PM" @@ "9pm - Late Mic" :> "9PM"

TimeTokenLines == DOMAIN TokenShown

\* How many of the first n lines begin with a time token.
Tokens(n) == Cardinality({k \in 1..n : lines[k] \in TimeTokenLines})

\* How many candidates there have been: the saved ones and the open one.
Candidates(saved, mic) == Len(saved) + (IF mic = NoCurrentMic THEN 0 ELSE 1)

\* C21: in _parse_page only a line that begins with a time token opens a
\* candidate.  Until the first such line nothing is opened or saved; a
\* time-token line ends the open candidate (saved or dropped, never changed
\* again) and opens a new one with that token and no details; any other line
\* opens and saves nothing; and there are never more candidates, nor more
\* returned records, than time-token lines read.
C21_TimeTokenOpensCandidate ==
    [][ /\ Tokens(line_no') = 0 => current_mic' = NoCurrentMic /\ page_mics' = <<>>
        /\ Candidates(page_mics', current_mic') <= Tokens(line_no')
        /\ returned' # NotParsed => Len(returned') <= Tokens(Len(lines))
        /\ line_no' = line_no + 1 =>
              IF lines[line_no'] \in TimeTokenLines
              THEN /\ page_mics' \in {page_mics, Append(page_mics, current_mic)}
                   /\ current_mic' # NoCurrentMic
                   /\ current_mic'.display_time = TokenShown[lines[line_no']]
                   /\ \A key \in {"venue", "address", "cost", "signup_method", "signup_notes"} :
                         current_mic'[key] = None
              ELSE /\ page_mics' = page_mics
                   /\ current_mic = NoCurrentMic => current_mic' = NoCurrentMic ]_vars

\* A page whose first line is no time token and that has two time-token lines
\* has yielded two records.
C21_Witness ==
    /\ returned # NotParsed
    /\ Len(lines) >= 3
    /\ lines[1] \notin TimeTokenLines
    /\ Tokens(Len(lines)) = 2
    /\ Len(returned) = 2

\* What each line of the pool without a time token is, by the first of
\* address, cost and signup that it has the shape of.
LineKind ==
    "Free, 487 Atlantic Ave" :> "address" @@ "$5, bucket list" :> "cost"
        @@ "Sign up online" :> "signup" @@ "Email list" :> "signup"
        @@ "The Green Room" :> "plain" @@ "Open Mic" :> "plain"

\* The signup method each signup line of the pool names.
SignupNamed == "Sign up online" :> "online" @@ "Email list" :> "email"

\* A turn of the loop on a line without a time token, a candidate being open.
DetailTurn ==
    /\ line_no' = line_no + 1
    /\ lines[line_no'] \notin TimeTokenLines
    /\ current_mic # NoCurrentMic

\* The line of the last time token among the first n lines.
Opened(n) == CHOOSE t \in 1..n : lines[t] \in TimeTokenLines /\ \A k \in (t + 1)..n : lines[k] \notin TimeTokenLines

\* How many plain lines the open candidate has had, the first n lines read.
PlainLines(n) == Cardinality({k \in (Opened(n) + 1)..n : LineKind[lines[k]] = "plain"})

\* What a line of one of the first three kinds does to the candidate.
Classified(mic, line) ==
    CASE LineKind[line] = "address" -> [mic EXCEPT !.address = line]
      [] LineKind[line] = "cost" -> [mic EXCEPT !.cost = line]
      [] LineKind[line] = "signup" ->
            IF mic.signup_method = None
            THEN [mic EXCEPT !.signup_method = SignupNamed[line], !.signup_notes = line]
            ELSE mic

C22_IdAndSourceNotPersisted ==
    [][ Len(open_mics') > Len(open_mics) =>
          LET row == open_mics'[Len(open_mics')]
          IN  /\ SubSeq(open_mics', 1, Len(open_mics)) = open_mics
              /\ Len(open_mics') = Len(open_mics) + 1
              /\ row.id = Len(open_mics) + 1
              /\ \A i \in DOMAIN open_mics : open_mics[i].id # row.id
              /\ \E data_dict \in AddDicts :
                    /\ "id" \in DOMAIN data_dict /\ "source" \in DOMAIN data_dict
                    /\ data_dict.id # row.id
                    /\ \A k \in DOMAIN row \ {"id", "is_active"} :
                          row[k] = IF k \in DOMAIN data_dict THEN data_dict[k] ELSE None ]_vars

\* The mic given with id 7 and a source is in the table, under another id.
C22_Witness ==
    \E i \in DOMAIN open_mics :
        /\ open_mics[i].venue = "The Golden Pen"
        /\ open_mics[i].address = "12 Main St"
        /\ open_mics[i].id # 7

\* ---------------------------------------------------------- Weekly Calendar

\* The day of the week shown, as day_date.isoformat() gives it.
DayDate == "2026-01-13"

\* The mics on the calendar.
CalendarTable == Renumber(SubSeq(StorePool, 1, 2))

CalendarMics == {CalendarTable[i].id : i \in DOMAIN CalendarTable}

\* A session between two runs of the page.
AtPage == [pc |-> "page", button |-> "none", mic_id |-> 0, plan_status |-> None]

\* plan_lookup.get(plan_key, None), plan_lookup made of get_plans_for_week()
PlanStatus(plans, mic_id, day_date) ==
    IF \E p \in plans : p.open_mic_id = mic_id /\ p.plan_date = day_date
    THEN (CHOOSE p \in plans : p.open_mic_id = mic_id /\ p.plan_date = day_date).status
    ELSE None

\* Mutant of get_sets_for_mic_date: the set's own id is compared.
SetsForSetId(sets, mic_id, date_str) ==
    \E k \in DOMAIN sets : sets[k].id = mic_id /\ sets[k].date_performed = date_str

\* get_sets_for_mic_date(mic_id, date_str): "row is not None"
get_sets_for_mic_date(sets, mic_id, date_str) ==
    \E k \in DOMAIN sets : sets[k].open_mic_id = mic_id /\ sets[k].date_performed = date_str

\* The sets logged before the calendar is used: none, one of the first mic on
\* the day shown, or one of it on a day before.
LoggedSets ==
    {<<>>} \cup {<<[id |-> 1, open_mic_id |-> 1, date_performed |-> d]>> :
                    d \in {DayDate, "2026-01-06"}}

PlanFrame == UNCHANGED <<open_mics, session, outcome, added_from, scrape_log, run,
                         scrapeVars, timeVars, parseVars>>

PlanInit ==
    /\ open_mics = CalendarTable
    /\ my_sets \in LoggedSets
    /\ mic_plans = {}
    /\ \E open \in {{"a"}, {"a", "b"}} : calendar = [s \in open |-> AtPage]
    /\ last_plan_call = [m \in CalendarMics |-> "none"]
    /\ going_added = [m \in CalendarMics |-> 0]
    /\ session = NoSession
    /\ outcome = <<>>
    /\ added_from = NotAdded
    /\ scrape_log = <<>>
    /\ run = NoRun
    /\ NotCalled
    /\ NoTimes
    /\ NoParse

\* A click on a button of a mic's card: the page runs anew and loads the
\* plans of the week before it comes to the buttons.
Click(s) ==
    /\ calendar[s].pc = "page"
    /\ \E button \in {"Going", "Cancelled", "Clear"}, mic_id \in CalendarMics :
          calendar' = [calendar EXCEPT ![s] =
                          [pc |-> "buttons", button |-> button, mic_id |-> mic_id,
                           plan_status |-> PlanStatus(mic_plans, mic_id, DayDate)]]
    /\ UNCHANGED <<my_sets, mic_plans, last_plan_call, going_added>>
    /\ PlanFrame

\* "Going": the button is there unless the plan is "going"; set_mic_plan.
Going(s) ==
    /\ calendar[s].pc = "buttons"
    /\ calendar[s].button = "Going"
    /\ IF calendar[s].plan_status # "going"
       THEN /\ mic_plans' = set_mic_plan(mic_plans, open_mics, calendar[s].mic_id, DayDate,
                                          "going")
            /\ last_plan_call' = [last_plan_call EXCEPT ![calendar[s].mic_id] = "going"]
            /\ calendar' = [calendar EXCEPT ![s].pc = "check"]
       ELSE /\ calendar' = [calendar EXCEPT ![s] = AtPage]
            /\ UNCHANGED <<mic_plans, last_plan_call>>
    /\ UNCHANGED <<my_sets, going_added>>
    /\ PlanFrame

\* "if not get_sets_for_mic_date(mic_id, day_date.isoformat()):"
GoingCheck(s) ==
    /\ calendar[s].pc = "check"
    /\ calendar' = IF get_sets_for_mic_date(my_sets, calendar[s].mic_id, DayDate)
                   THEN [calendar EXCEPT ![s] = AtPage]
                   ELSE [calendar EXCEPT ![s].pc = "add"]
    /\ UNCHANGED <<my_sets, mic_plans, last_plan_call, going_added>>
    /\ PlanFrame

\* "add_set({...})" and "st.rerun()"
GoingAdd(s) ==
    /\ calendar[s].pc = "add"
    /\ my_sets' = add_set(my_sets, open_mics,
                          [open_mic_id |-> calendar[s].mic_id, date_performed |-> DayDate])
    /\ going_added' = [going_added EXCEPT ![calendar[s].mic_id] = @ + 1]
    /\ calendar' = [calendar EXCEPT ![s] = AtPage]
    /\ UNCHANGED <<mic_plans, last_plan_call>>
    /\ PlanFrame

\* "Cancelled": the button is there unless the plan is "cancelled".
Cancelled(s) ==
    /\ calendar[s].pc = "buttons"
    /\ calendar[s].button = "Cancelled"
    /\ IF calendar[s].plan_status # "cancelled"
       THEN /\ mic_plans' = set_mic_plan(mic_plans, open_mics, calendar[s].mic_id, DayDate,
                                          "cancelled")
            /\ last_plan_call' = [last_plan_call EXCEPT ![calendar[s].mic_id] = "cancelled"]
       ELSE UNCHANGED <<mic_plans, last_plan_call>>
    /\ calendar' = [calendar EXCEPT ![s] = AtPage]
    /\ UNCHANGED <<my_sets, going_added>>
    /\ PlanFrame

\* "Clear": the button is there when there is a plan.
Clear(s) ==
    /\ calendar[s].pc = "buttons"
    /\ calendar[s].button = "Clear"
    /\ IF calendar[s].plan_status # None
       THEN /\ mic_plans' = remove_mic_plan(mic_plans, calendar[s].mic_id, DayDate)
            /\ last_plan_call' = [last_plan_call EXCEPT ![calendar[s].mic_id] = "removed"]
       ELSE UNCHANGED <<mic_plans, last_plan_call>>
    /\ calendar' = [calendar EXCEPT ![s] = AtPage]
    /\ UNCHANGED <<my_sets, going_added>>
    /\ PlanFrame

PlanNext ==
    \/ \E s \in DOMAIN calendar : Click(s)
    \/ \E s \in DOMAIN calendar : Going(s)
    \/ \E s \in DOMAIN calendar : GoingCheck(s)
    \/ \E s \in DOMAIN calendar : GoingAdd(s)
    \/ \E s \in DOMAIN calendar : Cancelled(s)
    \/ \E s \in DOMAIN calendar : Clear(s)

SpecPlan == PlanInit /\ [][PlanNext]_vars

\* ---------------------------------------------- claims on the Weekly Calendar

\* The plans of a mic on the day shown.
PlansOf(m) == {p \in mic_plans : p.open_mic_id = m /\ p.plan_date = DayDate}

\* C23: whatever set_mic_plan and remove_mic_plan calls have been made,
\* mic_plans holds at most one row for a mic and date, its status is "going"
\* or "cancelled" and is that of the last set_mic_plan call for the pair, and
\* there is no row when the last call for the pair was remove_mic_plan (or
\* when there was none).
C23_OnePlanWithLastStatus ==
    \A m \in CalendarMics :
        /\ Cardinality(PlansOf(m)) <= 1
        /\ \A p \in PlansOf(m) : p.status \in {"going", "cancelled"}
        /\ IF last_plan_call[m] \in {"going", "cancelled"}
           THEN \E p \in PlansOf(m) : p.status = last_plan_call[m]
           ELSE PlansOf(m) = {}

\* Going, then Cancelled: one "cancelled" row.
C23_Witness ==
    \E m \in CalendarMics :
        /\ going_added[m] > 0
        /\ last_plan_call[m] = "cancelled"
        /\ PlansOf(m) = {[open_mic_id |-> m, plan_date |-> DayDate, status |-> "cancelled"]}

\* The sets logged for a mic on the day shown.
SetsOf(sets, m) == {k \in DOMAIN sets : sets[k].open_mic_id = m /\ sets[k].date_performed = DayDate}

\* One session is open.
SingleSession == DOMAIN calendar = {"a"}

\* C24: in a single session, whatever Going, Cancelled and Clear clicks are
\* made on a mic and date, the Going handler adds at most one set for them,
\* and none when my_sets holds one for them already.
C24_GoingAddsOneSetAtMost ==
    [][ SingleSession =>
          \A m \in CalendarMics :
              /\ going_added'[m] <= 1
              /\ going_added'[m] > going_added[m] =>
                    /\ SetsOf(my_sets, m) = {}
                    /\ Cardinality(SetsOf(my_sets', m)) = 1 ]_vars

\* In a single session a Going click on a mic is at its check of my_sets, an
\* earlier Going click having added the set.
C24_Witness ==
    /\ SingleSession
    /\ calendar["a"].pc = "check"
    /\ going_added[calendar["a"].mic_id] = 1

\* A session's Cancelled or Clear handler runs in this step.
CancelOrClear ==
    \E s \in DOMAIN calendar :
        /\ calendar[s].pc = "buttons"
        /\ calendar[s].button \in {"Cancelled", "Clear"}
        /\ calendar'[s].pc = "page"

\* C28: cancelling or clearing a plan leaves my_sets as it was, so that the
\* set a Going click added for a mic and date is there afterwards.
C28_CancelAndClearKeepSets ==
    [][ /\ CancelOrClear => my_sets' = my_sets
        /\ \A m \in CalendarMics : going_added'[m] > 0 => SetsOf(my_sets', m) # {} ]_vars

\* A mic's plan has been cleared after a Going click added its set, and the
\* set is there.
C28_Witness ==
    \E m \in CalendarMics :
        /\ going_added[m] > 0
        /\ last_plan_call[m] = "removed"
        /\ PlansOf(m) = {}
        /\ SetsOf(my_sets, m) # {}

\* Two sessions are open.
TwoSessions == DOMAIN calendar = {"a", "b"}

\* C29: with two sessions running the Going handler for the same mic and date,
\* their steps interleaved, the handlers add at most one set for them, and
\* mic_plans holds exactly one row for them while the last call was theirs.
C29_ConcurrentGoingAddsOneSet ==
    TwoSessions =>
        \A m \in CalendarMics :
            /\ going_added[m] <= 1
            /\ Cardinality(SetsOf(my_sets, m)) <= 1
            /\ last_plan_call[m] = "going" => Cardinality(PlansOf(m)) = 1

\* ------------------------------------------------- scraped data and the table

\* The row that add_mic makes of a record: the record's values in the text
\* columns, active.
RowOfRecord(row, mic) ==
    /\ row.is_active
    /\ \A c \in Columns : row[c] = Get(mic, c, None)

\* The comparison shown on the page called the record at position p new.
CalledNew(p) == p \in DOMAIN outcome /\ outcome[p] = "new"

\* C25: a step in which an extractor returned leaves open_mics as it was; no
\* step takes a row away or changes the text of a row; and a row that a step
\* adds is the row of a record that the comparison shown before the step
\* called new.
C25_ScrapedNotAutoInserted ==
    [][ /\ Len(open_mics') >= Len(open_mics)
        /\ run'.scraped => open_mics' = open_mics
        /\ \A j \in DOMAIN open_mics :
              Restrict(open_mics'[j], Columns) = Restrict(open_mics[j], Columns)
        /\ \A j \in (Len(open_mics) + 1)..Len(open_mics') :
              /\ Compared
              /\ \E p \in DOMAIN Fresh : CalledNew(p) /\ RowOfRecord(open_mics'[j], Fresh[p]) ]_vars

\* Add All has put the new record of a scrape of two in the table, and left
\* out the other one, which the comparison had counted matched.
C25_Witness ==
    /\ added_from.set
    /\ Len(added_from.mics) = 2
    /\ \E p, q \in DOMAIN added_from.mics :
          /\ CalledNew(p)
          /\ \E j \in DOMAIN open_mics : RowOfRecord(open_mics[j], added_from.mics[p])
          /\ q \in DOMAIN outcome /\ outcome[q] = "matched"
          /\ \A j \in DOMAIN open_mics : ~RowOfRecord(open_mics[j], added_from.mics[q])

\* ------------------------------------------------ one record at a time

\* The matcher, given this record alone and the active rows, reports it new.
NewAlone(mic) == Compare(session.section, <<mic>>, Existing).new_mics = <<mic>>

\* The matcher would match record a if record b were a row of the table.
WouldMatch(a, b) == Compare(session.section, <<a>>, <<b>>).matched_mics = 1

\* C27: new_mics is the fresh list, in its order, without the records the
\* matcher does not report new when given each alone with the existing set;
\* and so it is for every other order of the same batch.
C27_EachRecordOnItsOwn ==
    Compared =>
        /\ NewMics = SelectSeq(Fresh, NewAlone)
        /\ \A batch \in Orderings(Fresh) :
              Compare(session.section, batch, Existing).new_mics = SelectSeq(batch, NewAlone)

\* Two fresh records that would match each other are both reported new, in
\* the order of the fresh list, and the table holds an active row.
C27_Witness ==
    /\ Compared
    /\ Existing # <<>>
    /\ Len(Fresh) = 2
    /\ WouldMatch(Fresh[1], Fresh[2])
    /\ WouldMatch(Fresh[2], Fresh[1])
    /\ NewMics = Fresh

\* ------------------------------------------------------- inactive rows

\* The fresh record at position p would match a row that is inactive, and
\* would match none of the active rows.
MatchesOnlyInactive(p) ==
    /\ \E i \in DOMAIN open_mics :
          ~open_mics[i].is_active /\ WouldMatch(Fresh[p], open_mics[i])
    /\ \A i \in DOMAIN open_mics :
          open_mics[i].is_active => ~WouldMatch(Fresh[p], open_mics[i])

\* The comparison shown read the active rows only.
OnlyActiveSeen ==
    Compared =>
        \A p \in DOMAIN Fresh :
            /\ (p \in DOMAIN outcome /\ outcome[p] = "matched") =>
                   \E j \in DOMAIN Existing : WouldMatch(Fresh[p], Existing[j])
            /\ MatchesOnlyInactive(p) => CalledNew(p) /\ InNewMics(Fresh[p])

\* A step that adds rows adds active ones and leaves every inactive row as it was.
AddKeepsInactive ==
    Len(open_mics') > Len(open_mics) =>
        /\ \A j \in (Len(open_mics) + 1)..Len(open_mics') : open_mics'[j].is_active
        /\ \A i \in DOMAIN open_mics : ~open_mics[i].is_active => open_mics'[i] = open_mics[i]

\* C30: a record is counted matched only by an active row; a fresh record that
\* would match only inactive rows is reported new; and adding records leaves
\* the inactive rows inactive and unchanged beside the new, active rows.
C30_InactiveRowsUnseen == []OnlyActiveSeen /\ [][AddKeepsInactive]_vars

\* A row that was active at the start has been deleted on the Settings page,
\* a later scrape found a record that would match it, and the record has been
\* added: its active row stands behind the inactive one.
C30_Witness ==
    /\ Compared
    /\ \E i, j \in DOMAIN open_mics, p \in DOMAIN Fresh :
          /\ i < j
          /\ ~open_mics[i].is_active
          /\ \E k \in DOMAIN StorePool :
                /\ StorePool[k].is_active
                /\ Restrict(open_mics[i], Columns) = Restrict(StorePool[k], Columns)
          /\ WouldMatch(Fresh[p], open_mics[i])
          /\ open_mics[j].is_active
          /\ RowOfRecord(open_mics[j], Fresh[p])

====
